---- MODULE Spec2Model ----
(***************************************************************************)
(* Model of the multi-agent ingredient analysis workflow:                  *)
(*   src/src/graph/state.py       the workflow state and its initial value *)
(*   src/src/graph/workflow.py    the supervisor -> agent -> supervisor    *)
(*                                graph                                    *)
(*   src/src/agents/*.py          supervisor (router), research, analysis, *)
(*                                critic                                   *)
(*   src/src/tools/mcp_tools.py   lookup, web search, scorer, allergen     *)
(*                                matcher                                  *)
(* Python values: None is the empty tuple <<>> and a present optional      *)
(* value x is <<x>>; text that the code inspects (names, allergens,        *)
(* concern tags, the critic's verdict) is a tuple of one-character         *)
(* strings; a confidence is held as its decimal in hundredths (70 is the   *)
(* float 0.7), and the floats computed from confidences are modelled bit   *)
(* for bit (see floats).                                                   *)
(***************************************************************************)
EXTENDS Integers, Sequences, FiniteSets, TLC

VARIABLES
    state,   \* the AnalysisState dict threaded through the graph
    node,    \* the graph node that runs next: supervisor, research, analysis, critic, END
    trace,   \* history: one entry per agent invocation, in order
    call,    \* the arguments of a tool or router call made outside a run
    ret,     \* its return value
    manager, \* the SessionManager handed to run_analysis_with_memory
    manager_calls   \* history: one entry per call made on the manager, in order

vars == <<state, node, trace, call, ret, manager, manager_calls>>

\* ------------------------------------------------------------------ bounds

\* Largest max_retries value a state is created with.
MaxRetriesBound == 4

\* ------------------------------------------------------------ Python values

None == <<>>
Some(x) == <<x>>

\* A local variable of the code: v is evaluated once, as an assignment is,
\* and F is applied to its value.
Bind(v, F(_)) == CHOOSE r \in {F(x) : x \in {v}} : TRUE

\* dict.get(key, default)
Get(d, k, default) == IF k \in DOMAIN d THEN d[k] ELSE default

\* ---------------------------------------------------------------- floats

\* A Python float (IEEE-754 double) that arises from confidences: the
\* record [num, den, err] is the double of value
\*     num / (100 * den)  +  err * 2^-56 / (25 * den),
\* num / (100 * den) being the decimal value meant and err the double's
\* distance from it, an integer in this unit for every double that is a
\* multiple of 2^-56 (every double of magnitude 1/16 or more; 0.0 is
\* [0, 1, 0]). An exact quotient that is not a double has the same form.

\* b^n modulo m
RECURSIVE PowMod(_, _, _)
PowMod(b, n, m) == IF n = 0 THEN 1 % m ELSE (b * PowMod(b, n - 1, m)) % m

\* value(x) >= t / 8
FloatAtLeastEighths(x, t) ==
    \/ 8 * x.num > 100 * x.den * t
    \/ 8 * x.num = 100 * x.den * t /\ x.err >= 0

\* The spacing of the doubles around x, as a power of two of 2^-56: 0 in
\* [1/16, 1/8), 1 in [1/8, 1/4), and so on up to 6 in [4, 8).
FloatUlp(x) == Cardinality({j \in 0..5 : FloatAtLeastEighths(x, 2^j)})

\* Round to nearest, ties to even: the double an operation returns for
\* the exact result x.
FloatRound(x) ==
    IF x.num = 0 /\ x.err = 0 THEN [num |-> 0, den |-> 1, err |-> 0]
    ELSE LET G == 25 * x.den * 2^FloatUlp(x)
             V == (((x.num % (2 * G)) * PowMod(2, 54, 2 * G)) + x.err) % (2 * G)
             r == V % G
         IN  [num |-> x.num, den |-> x.den,
              err |-> IF 2 * r < G \/ (2 * r = G /\ V = r)
                      THEN x.err - r ELSE x.err - r + G]

\* float literal c / 100
FloatOf(c) == FloatRound([num |-> c, den |-> 1, err |-> 0])

\* x + y for doubles of denominator 1
FloatAdd(x, y) == FloatRound([num |-> x.num + y.num, den |-> 1, err |-> x.err + y.err])

\* x / n for a double of denominator 1 and an int n >= 1
FloatDiv(x, n) == FloatRound([num |-> x.num, den |-> n, err |-> x.err])

\* x >= y
FloatGE(x, y) ==
    \/ x.num * y.den > y.num * x.den
    \/ x.num * y.den = y.num * x.den /\ x.err * y.den >= y.err * x.den

\* ---------------------------------------------------------------- text

LowerLetters ==
    <<"a","b","c","d","e","f","g","h","i","j","k","l","m",
      "n","o","p","q","r","s","t","u","v","w","x","y","z">>
UpperLetters ==
    <<"A","B","C","D","E","F","G","H","I","J","K","L","M",
      "N","O","P","Q","R","S","T","U","V","W","X","Y","Z">>

LowerChar(c) ==
    IF \E i \in 1..Len(UpperLetters) : UpperLetters[i] = c
    THEN LowerLetters[CHOOSE i \in 1..Len(UpperLetters) : UpperLetters[i] = c]
    ELSE c
UpperChar(c) ==
    IF \E i \in 1..Len(LowerLetters) : LowerLetters[i] = c
    THEN UpperLetters[CHOOSE i \in 1..Len(LowerLetters) : LowerLetters[i] = c]
    ELSE c

\* str.lower(), str.upper()
Lower(s) == [i \in 1..Len(s) |-> LowerChar(s[i])]
Upper(s) == [i \in 1..Len(s) |-> UpperChar(s[i])]

\* a in b, for strings: a is a contiguous part of b (the empty string always is)
Contains(b, a) ==
    \E i \in 0..(Len(b) - Len(a)) : \A j \in 1..Len(a) : b[i + j] = a[j]

\* Texts of the source and of the inputs, as character tuples.
T_Parfum == <<"P","a","r","f","u","m">>
T_parfum == <<"p","a","r","f","u","m">>
T_PARFUM == <<"P","A","R","F","U","M">>
T_Fragrance == <<"F","r","a","g","r","a","n","c","e">>
T_fragrance == <<"f","r","a","g","r","a","n","c","e">>
T_perfume == <<"p","e","r","f","u","m","e">>
T_Water == <<"W","a","t","e","r">>
T_Par == <<"P","a","r">>
T_ParfumOil == <<"P","a","r","f","u","m"," ","O","i","l">>
T_AlcoholDenat == <<"A","l","c","o","h","o","l"," ","D","e","n","a","t">>
T_alcohol_denat == <<"a","l","c","o","h","o","l"," ","d","e","n","a","t">>
T_alcohol == <<"a","l","c","o","h","o","l">>
T_ethanol == <<"e","t","h","a","n","o","l">>
T_ethyl_alcohol == <<"e","t","h","y","l"," ","a","l","c","o","h","o","l">>
T_VitaminE == <<"V","i","t","a","m","i","n"," ","E">>
T_vitamin_e == <<"v","i","t","a","m","i","n"," ","e">>
T_Tocopherol == <<"T","o","c","o","p","h","e","r","o","l">>
T_tocopherol == <<"t","o","c","o","p","h","e","r","o","l">>
T_tocopheryl_acetate == <<"t","o","c","o","p","h","e","r","y","l"," ","a","c","e","t","a","t","e">>
T_Retinol == <<"R","e","t","i","n","o","l">>
T_retinol == <<"r","e","t","i","n","o","l">>
T_Tretinoin == <<"T","r","e","t","i","n","o","i","n">>
T_tretinoin == <<"t","r","e","t","i","n","o","i","n">>
T_retinyl_palmitate == <<"r","e","t","i","n","y","l"," ","p","a","l","m","i","t","a","t","e">>
T_retinoic_acid == <<"r","e","t","i","n","o","i","c"," ","a","c","i","d">>
T_irritation == <<"i","r","r","i","t","a","t","i","o","n">>
T_allergic == <<"a","l","l","e","r","g","i","c">>
T_sensitizing == <<"s","e","n","s","i","t","i","z","i","n","g">>
T_comedogenic == <<"c","o","m","e","d","o","g","e","n","i","c">>
T_none == <<"n","o","n","e">>
T_NoDataAvailable == <<"N","o"," ","d","a","t","a"," ","a","v","a","i","l","a","b","l","e">>
T_LookupError == <<"L","o","o","k","u","p"," ","e","r","r","o","r",":"," ","t","i","m","e","o","u","t">>
T_SkinIrritation == <<"S","k","i","n"," ","I","r","r","i","t","a","t","i","o","n">>
T_Comedogenic == <<"C","o","m","e","d","o","g","e","n","i","c">>
T_NoWebSearch == <<"N","o"," ","w","e","b"," ","s","e","a","r","c","h"," ","a","v","a","i","l","a","b","l","e">>
T_NoWebResults == <<"N","o"," ","w","e","b"," ","r","e","s","u","l","t","s"," ","f","o","u","n","d">>
T_WebSearchError == <<"W","e","b"," ","s","e","a","r","c","h"," ","e","r","r","o","r",":"," ","t","i","m","e","o","u","t">>
T_potential_irritation == <<"p","o","t","e","n","t","i","a","l"," ","i","r","r","i","t","a","t","i","o","n">>
T_toxicity_concerns == <<"t","o","x","i","c","i","t","y"," ","c","o","n","c","e","r","n","s">>
T_may_clog_pores == <<"m","a","y"," ","c","l","o","g"," ","p","o","r","e","s">>
T_generally_safe == <<"g","e","n","e","r","a","l","l","y"," ","s","a","f","e">>
T_insufficient_data == <<"i","n","s","u","f","f","i","c","i","e","n","t"," ","d","a","t","a">>
T_APPROVE == <<"A","P","P","R","O","V","E">>
T_REJECT == <<"R","E","J","E","C","T">>
T_NoAnalysisProvided == <<"N","o"," ","a","n","a","l","y","s","i","s"," ","p","r","o","v","i","d","e","d"," ","t","o"," ","v","a","l","i","d","a","t","e",".">>
T_VerdictApprove == <<"A","P","P","R","O","V","E"," ","a","l","l"," ","g","a","t","e","s"," ","p","a","s","s">>
T_VerdictReject == <<"R","E","J","E","C","T"," ","a","d","d"," ","t","h","e"," ","t","a","b","l","e">>
T_VerdictRejectLower == <<"r","e","j","e","c","t",":"," ","m","i","s","s","i","n","g"," ","G","l","y","c","e","r","i","n">>
T_VerdictApproveMentionsReject == <<"A","P","P","R","O","V","E","."," ","N","o","t","h","i","n","g"," ","t","o"," ","r","e","j","e","c","t",".">>
T_VerdictNeither == <<"L","o","o","k","s"," ","f","i","n","e">>

\* ----------------------------------------------------------------- tools

\* str(list_of_strings): "['a', 'b']"
RECURSIVE ReprItems(_, _)
ReprItems(xs, i) ==
    IF i > Len(xs) THEN <<>>
    ELSE (IF i > 1 THEN <<",", " ">> ELSE <<>>) \o <<"'">> \o xs[i] \o <<"'">> \o ReprItems(xs, i + 1)
PyStrList(xs) == <<"[">> \o ReprItems(xs, 1) \o <<"]">>

\* The synonym_map of is_allergen_match, in the dict's order.
synonym_map ==
    << [key |-> T_fragrance, synonyms |-> <<T_parfum, T_perfume, T_fragrance>>],
       [key |-> T_parfum, synonyms |-> <<T_fragrance, T_perfume, T_parfum>>],
       [key |-> T_vitamin_e, synonyms |-> <<T_tocopherol, T_tocopheryl_acetate>>],
       [key |-> T_alcohol, synonyms |-> <<T_alcohol_denat, T_ethanol, T_ethyl_alcohol>>],
       [key |-> T_retinol, synonyms |-> <<T_retinyl_palmitate, T_retinoic_acid, T_tretinoin>>] >>

InSeq(x, xs) == \E i \in 1..Len(xs) : xs[i] = x

\* The body of is_allergen_match's loop for one allergen: does any of the
\* three tests return?
AllergenTestsHit(ingredient_lower, allergen_lower) ==
    \/ allergen_lower = ingredient_lower
    \/ Contains(ingredient_lower, allergen_lower)
    \/ Contains(allergen_lower, ingredient_lower)
    \/ \E e \in 1..Len(synonym_map) :
          /\ allergen_lower = synonym_map[e].key \/ InSeq(allergen_lower, synonym_map[e].synonyms)
          /\ \E k \in 1..Len(synonym_map[e].synonyms) :
                Contains(ingredient_lower, synonym_map[e].synonyms[k])

\* is_allergen_match, had it compared the ingredient name as written.
is_allergen_matchCaseSensitive(ingredient_name, user_allergies) ==
    LET ingredient_lower == ingredient_name
        hits == {i \in 1..Len(user_allergies) :
                    AllergenTestsHit(ingredient_lower, Lower(user_allergies[i]))}
        first == CHOOSE i \in hits : \A j \in hits : i <= j
    IN  IF hits = {} THEN <<FALSE, None>> ELSE <<TRUE, Some(user_allergies[first])>>

\* IngredientTools.is_allergen_match: the tuple (is_match, matched_allergen).
\* The loop returns at the first allergen of the list that one of the tests hits.
is_allergen_match(ingredient_name, user_allergies) ==
    LET ingredient_lower == Lower(ingredient_name)
        hits == {i \in 1..Len(user_allergies) :
                    AllergenTestsHit(ingredient_lower, Lower(user_allergies[i]))}
        first == CHOOSE i \in hits : \A j \in hits : i <= j
    IN  IF hits = {} THEN <<FALSE, None>> ELSE <<TRUE, Some(user_allergies[first])>>

\* IngredientTools.allergen_matcher
allergen_matcher(ingredient_name, user_allergies) ==
    LET m == is_allergen_match(ingredient_name, user_allergies)
        is_match == m[1]
        matched_allergen == m[2]
        match_type ==
            IF is_match
            THEN IF Lower(matched_allergen[1]) = Lower(ingredient_name) THEN Some("exact")
                 ELSE IF \/ Contains(Lower(ingredient_name), Lower(matched_allergen[1]))
                         \/ Contains(Lower(matched_allergen[1]), Lower(ingredient_name))
                      THEN Some("partial")
                      ELSE Some("synonym")
            ELSE None
    IN  [is_match |-> is_match, matched_allergen |-> matched_allergen, match_type |-> match_type]

\* bool(t) of a Python tuple: true unless the tuple is empty.
PyBoolTuple(t) == Len(t) # 0

Min(a, b) == IF a <= b THEN a ELSE b
Max(a, b) == IF a >= b THEN a ELSE b

SensitiveKeywords == <<T_irritation, T_allergic, T_sensitizing>>

\* The recommendation thresholds of safety_scorer.
Recommend(personalized_score) ==
    IF personalized_score >= 8 THEN "AVOID"
    ELSE IF personalized_score >= 5 THEN "USE WITH CAUTION"
    ELSE "SAFE"

\* safety_scorer, had it added the sensitive-skin points without the cap.
safety_scorerUncapped(ingredient_data, user_skin_type, user_allergies) ==
    LET raw == Get(ingredient_data, "safety_score", None)
        ingredient_name == ingredient_data.name
        concerns == Get(ingredient_data, "concerns", <<>>)
        base_score == IF raw = None THEN 5 ELSE raw[1]
        allergies == IF user_allergies = None THEN <<>> ELSE user_allergies
        allergen == PyBoolTuple(is_allergen_match(ingredient_name, allergies))
        s1 == IF allergen THEN 10 ELSE base_score
        concerns_text == Lower(PyStrList(concerns))
        irritating ==
            /\ user_skin_type = "sensitive"
            /\ \E k \in 1..Len(SensitiveKeywords) : Contains(concerns_text, SensitiveKeywords[k])
        s2 == IF irritating THEN s1 + 2 ELSE s1
        clogging == user_skin_type = "oily" /\ Contains(concerns_text, T_comedogenic)
        s3 == IF clogging THEN Min(10, s2 + 1) ELSE s2
        reasoning ==
            (IF allergen THEN <<"ALLERGEN MATCH">> ELSE <<>>)
            \o (IF irritating THEN <<"Higher concern for sensitive skin due to irritation risk">> ELSE <<>>)
            \o (IF clogging THEN <<"May clog pores on oily skin">> ELSE <<>>)
    IN  [personalized_score |-> s3,
         base_score |-> base_score,
         adjustments |->
            (IF allergen THEN <<"Allergen match: +5 points">> ELSE <<>>)
            \o (IF irritating THEN <<"Sensitive skin: +2 points for irritation concerns">> ELSE <<>>)
            \o (IF clogging THEN <<"Oily skin: +1 point for comedogenic risk">> ELSE <<>>),
         recommendation |-> Recommend(s3),
         reasoning |-> IF reasoning # <<>> THEN reasoning ELSE <<"Base safety score">>]

\* safety_scorer, had it drawn the recommendation from the base score.
safety_scorerRecommendsOnBase(ingredient_data, user_skin_type, user_allergies) ==
    LET raw == Get(ingredient_data, "safety_score", None)
        ingredient_name == ingredient_data.name
        concerns == Get(ingredient_data, "concerns", <<>>)
        base_score == IF raw = None THEN 5 ELSE raw[1]
        allergies == IF user_allergies = None THEN <<>> ELSE user_allergies
        allergen == PyBoolTuple(is_allergen_match(ingredient_name, allergies))
        s1 == IF allergen THEN 10 ELSE base_score
        concerns_text == Lower(PyStrList(concerns))
        irritating ==
            /\ user_skin_type = "sensitive"
            /\ \E k \in 1..Len(SensitiveKeywords) : Contains(concerns_text, SensitiveKeywords[k])
        s2 == IF irritating THEN Min(10, s1 + 2) ELSE s1
        clogging == user_skin_type = "oily" /\ Contains(concerns_text, T_comedogenic)
        s3 == IF clogging THEN Min(10, s2 + 1) ELSE s2
        reasoning ==
            (IF allergen THEN <<"ALLERGEN MATCH">> ELSE <<>>)
            \o (IF irritating THEN <<"Higher concern for sensitive skin due to irritation risk">> ELSE <<>>)
            \o (IF clogging THEN <<"May clog pores on oily skin">> ELSE <<>>)
    IN  [personalized_score |-> s3,
         base_score |-> base_score,
         adjustments |->
            (IF allergen THEN <<"Allergen match: +5 points">> ELSE <<>>)
            \o (IF irritating THEN <<"Sensitive skin: +2 points for irritation concerns">> ELSE <<>>)
            \o (IF clogging THEN <<"Oily skin: +1 point for comedogenic risk">> ELSE <<>>),
         recommendation |-> Recommend(base_score),
         reasoning |-> IF reasoning # <<>> THEN reasoning ELSE <<"Base safety score">>]

\* IngredientTools.safety_scorer
safety_scorer(ingredient_data, user_skin_type, user_allergies) ==
    LET raw == Get(ingredient_data, "safety_score", None)
        ingredient_name == ingredient_data.name
        concerns == Get(ingredient_data, "concerns", <<>>)
        base_score == IF raw = None THEN 5 ELSE raw[1]
        allergies == IF user_allergies = None THEN <<>> ELSE user_allergies
        allergen == PyBoolTuple(is_allergen_match(ingredient_name, allergies))
        s1 == IF allergen THEN 10 ELSE base_score
        concerns_text == Lower(PyStrList(concerns))
        irritating ==
            /\ user_skin_type = "sensitive"
            /\ \E k \in 1..Len(SensitiveKeywords) : Contains(concerns_text, SensitiveKeywords[k])
        s2 == IF irritating THEN Min(10, s1 + 2) ELSE s1
        clogging == user_skin_type = "oily" /\ Contains(concerns_text, T_comedogenic)
        s3 == IF clogging THEN Min(10, s2 + 1) ELSE s2
        reasoning ==
            (IF allergen THEN <<"ALLERGEN MATCH">> ELSE <<>>)
            \o (IF irritating THEN <<"Higher concern for sensitive skin due to irritation risk">> ELSE <<>>)
            \o (IF clogging THEN <<"May clog pores on oily skin">> ELSE <<>>)
    IN  [personalized_score |-> s3,
         base_score |-> base_score,
         adjustments |->
            (IF allergen THEN <<"Allergen match: +5 points">> ELSE <<>>)
            \o (IF irritating THEN <<"Sensitive skin: +2 points for irritation concerns">> ELSE <<>>)
            \o (IF clogging THEN <<"Oily skin: +1 point for comedogenic risk">> ELSE <<>>),
         recommendation |-> Recommend(s3),
         reasoning |-> IF reasoning # <<>> THEN reasoning ELSE <<"Base safety score">>]

\* ---------------------------------------------------------------- router

\* The message texts the supervisor appends.
MsgResearchExhausted == "Unable to complete ingredient research after maximum attempts. Returning partial results."
MsgAnalysisExhausted == "Analysis validation not perfect but returning best available results."
MsgUnexpected == "Unexpected workflow state. Please try again."

DefaultMaxRetries == 5

\* bool(x) of an Optional[str]: None and "" are false.
TruthyText(t) == t # None /\ t[1] # <<>>

\* route, had it left workflow_complete unset when the analysis retries run out.
routeExhaustedNotComplete(s) ==
    LET research_complete == Get(s, "research_complete", FALSE)
        analysis_complete == Get(s, "analysis_complete", FALSE)
        critic_approved == Get(s, "critic_approved", FALSE)
        research_attempts == Get(s, "research_attempts", 0)
        analysis_attempts == Get(s, "analysis_attempts", 0)
        max_retries == Get(s, "max_retries", DefaultMaxRetries)
    IN  IF research_attempts >= max_retries /\ ~research_complete
        THEN [next_agent |-> "END", workflow_complete |-> TRUE,
              messages |-> <<MsgResearchExhausted>>]
        ELSE IF analysis_attempts >= max_retries /\ ~critic_approved
        THEN [next_agent |-> "END", workflow_complete |-> FALSE,
              messages |-> <<MsgAnalysisExhausted>>]
        ELSE IF critic_approved
        THEN [next_agent |-> "END", workflow_complete |-> TRUE]
        ELSE IF ~research_complete
        THEN [next_agent |-> "research", workflow_complete |-> FALSE]
        ELSE IF research_complete /\ ~analysis_complete
        THEN [next_agent |-> "analysis", workflow_complete |-> FALSE]
        ELSE IF analysis_complete /\ ~critic_approved
        THEN IF TruthyText(Get(s, "critic_feedback", None))
             THEN [next_agent |-> "analysis", workflow_complete |-> FALSE]
             ELSE [next_agent |-> "critic", workflow_complete |-> FALSE]
        ELSE [next_agent |-> "END", workflow_complete |-> TRUE,
              messages |-> <<MsgUnexpected>>]

\* route, had it no ceiling on the analysis attempts.
routeNoAnalysisCeiling(s) ==
    LET research_complete == Get(s, "research_complete", FALSE)
        analysis_complete == Get(s, "analysis_complete", FALSE)
        critic_approved == Get(s, "critic_approved", FALSE)
        research_attempts == Get(s, "research_attempts", 0)
        analysis_attempts == Get(s, "analysis_attempts", 0)
        max_retries == Get(s, "max_retries", DefaultMaxRetries)
    IN  IF research_attempts >= max_retries /\ ~research_complete
        THEN [next_agent |-> "END", workflow_complete |-> TRUE,
              messages |-> <<MsgResearchExhausted>>]
        ELSE IF FALSE /\ analysis_attempts >= max_retries
        THEN [next_agent |-> "END", workflow_complete |-> TRUE,
              messages |-> <<MsgAnalysisExhausted>>]
        ELSE IF critic_approved
        THEN [next_agent |-> "END", workflow_complete |-> TRUE]
        ELSE IF ~research_complete
        THEN [next_agent |-> "research", workflow_complete |-> FALSE]
        ELSE IF research_complete /\ ~analysis_complete
        THEN [next_agent |-> "analysis", workflow_complete |-> FALSE]
        ELSE IF analysis_complete /\ ~critic_approved
        THEN IF TruthyText(Get(s, "critic_feedback", None))
             THEN [next_agent |-> "analysis", workflow_complete |-> FALSE]
             ELSE [next_agent |-> "critic", workflow_complete |-> FALSE]
        ELSE [next_agent |-> "END", workflow_complete |-> TRUE,
              messages |-> <<MsgUnexpected>>]

\* route, had it sent a rejected report to the critic and a fresh one back to analysis.
routeSwapsRetry(s) ==
    LET research_complete == Get(s, "research_complete", FALSE)
        analysis_complete == Get(s, "analysis_complete", FALSE)
        critic_approved == Get(s, "critic_approved", FALSE)
        research_attempts == Get(s, "research_attempts", 0)
        analysis_attempts == Get(s, "analysis_attempts", 0)
        max_retries == Get(s, "max_retries", DefaultMaxRetries)
    IN  IF research_attempts >= max_retries /\ ~research_complete
        THEN [next_agent |-> "END", workflow_complete |-> TRUE,
              messages |-> <<MsgResearchExhausted>>]
        ELSE IF analysis_attempts >= max_retries /\ ~critic_approved
        THEN [next_agent |-> "END", workflow_complete |-> TRUE,
              messages |-> <<MsgAnalysisExhausted>>]
        ELSE IF critic_approved
        THEN [next_agent |-> "END", workflow_complete |-> TRUE]
        ELSE IF ~research_complete
        THEN [next_agent |-> "research", workflow_complete |-> FALSE]
        ELSE IF research_complete /\ ~analysis_complete
        THEN [next_agent |-> "analysis", workflow_complete |-> FALSE]
        ELSE IF analysis_complete /\ ~critic_approved
        THEN IF TruthyText(Get(s, "critic_feedback", None))
             THEN [next_agent |-> "critic", workflow_complete |-> FALSE]
             ELSE [next_agent |-> "analysis", workflow_complete |-> FALSE]
        ELSE [next_agent |-> "END", workflow_complete |-> TRUE,
              messages |-> <<MsgUnexpected>>]

\* route, had it told a retry by the rejection counter.
routeReadsRejections(s) ==
    LET research_complete == Get(s, "research_complete", FALSE)
        analysis_complete == Get(s, "analysis_complete", FALSE)
        critic_approved == Get(s, "critic_approved", FALSE)
        research_attempts == Get(s, "research_attempts", 0)
        analysis_attempts == Get(s, "analysis_attempts", 0)
        max_retries == Get(s, "max_retries", DefaultMaxRetries)
    IN  IF research_attempts >= max_retries /\ ~research_complete
        THEN [next_agent |-> "END", workflow_complete |-> TRUE,
              messages |-> <<MsgResearchExhausted>>]
        ELSE IF analysis_attempts >= max_retries /\ ~critic_approved
        THEN [next_agent |-> "END", workflow_complete |-> TRUE,
              messages |-> <<MsgAnalysisExhausted>>]
        ELSE IF critic_approved
        THEN [next_agent |-> "END", workflow_complete |-> TRUE]
        ELSE IF ~research_complete
        THEN [next_agent |-> "research", workflow_complete |-> FALSE]
        ELSE IF research_complete /\ ~analysis_complete
        THEN [next_agent |-> "analysis", workflow_complete |-> FALSE]
        ELSE IF analysis_complete /\ ~critic_approved
        THEN IF Get(s, "total_critic_rejections", 0) > 0
             THEN [next_agent |-> "analysis", workflow_complete |-> FALSE]
             ELSE [next_agent |-> "critic", workflow_complete |-> FALSE]
        ELSE [next_agent |-> "END", workflow_complete |-> TRUE,
              messages |-> <<MsgUnexpected>>]

\* route, had it compared the research attempts with > in place of >=.
routeOffByOne(s) ==
    LET research_complete == Get(s, "research_complete", FALSE)
        analysis_complete == Get(s, "analysis_complete", FALSE)
        critic_approved == Get(s, "critic_approved", FALSE)
        research_attempts == Get(s, "research_attempts", 0)
        analysis_attempts == Get(s, "analysis_attempts", 0)
        max_retries == Get(s, "max_retries", DefaultMaxRetries)
    IN  IF research_attempts > max_retries /\ ~research_complete
        THEN [next_agent |-> "END", workflow_complete |-> TRUE,
              messages |-> <<MsgResearchExhausted>>]
        ELSE IF analysis_attempts >= max_retries /\ ~critic_approved
        THEN [next_agent |-> "END", workflow_complete |-> TRUE,
              messages |-> <<MsgAnalysisExhausted>>]
        ELSE IF critic_approved
        THEN [next_agent |-> "END", workflow_complete |-> TRUE]
        ELSE IF ~research_complete
        THEN [next_agent |-> "research", workflow_complete |-> FALSE]
        ELSE IF research_complete /\ ~analysis_complete
        THEN [next_agent |-> "analysis", workflow_complete |-> FALSE]
        ELSE IF analysis_complete /\ ~critic_approved
        THEN IF TruthyText(Get(s, "critic_feedback", None))
             THEN [next_agent |-> "analysis", workflow_complete |-> FALSE]
             ELSE [next_agent |-> "critic", workflow_complete |-> FALSE]
        ELSE [next_agent |-> "END", workflow_complete |-> TRUE,
              messages |-> <<MsgUnexpected>>]

\* route, had it compared the analysis attempts with > in place of >=.
routeAnalysisOffByOne(s) ==
    LET research_complete == Get(s, "research_complete", FALSE)
        analysis_complete == Get(s, "analysis_complete", FALSE)
        critic_approved == Get(s, "critic_approved", FALSE)
        research_attempts == Get(s, "research_attempts", 0)
        analysis_attempts == Get(s, "analysis_attempts", 0)
        max_retries == Get(s, "max_retries", DefaultMaxRetries)
    IN  IF research_attempts >= max_retries /\ ~research_complete
        THEN [next_agent |-> "END", workflow_complete |-> TRUE,
              messages |-> <<MsgResearchExhausted>>]
        ELSE IF analysis_attempts > max_retries /\ ~critic_approved
        THEN [next_agent |-> "END", workflow_complete |-> TRUE,
              messages |-> <<MsgAnalysisExhausted>>]
        ELSE IF critic_approved
        THEN [next_agent |-> "END", workflow_complete |-> TRUE]
        ELSE IF ~research_complete
        THEN [next_agent |-> "research", workflow_complete |-> FALSE]
        ELSE IF research_complete /\ ~analysis_complete
        THEN [next_agent |-> "analysis", workflow_complete |-> FALSE]
        ELSE IF analysis_complete /\ ~critic_approved
        THEN IF TruthyText(Get(s, "critic_feedback", None))
             THEN [next_agent |-> "analysis", workflow_complete |-> FALSE]
             ELSE [next_agent |-> "critic", workflow_complete |-> FALSE]
        ELSE [next_agent |-> "END", workflow_complete |-> TRUE,
              messages |-> <<MsgUnexpected>>]

\* route, had it sent only a report never rejected to analysis.
routeNoRetryAfterFeedback(s) ==
    LET research_complete == Get(s, "research_complete", FALSE)
        analysis_complete == Get(s, "analysis_complete", FALSE)
        critic_approved == Get(s, "critic_approved", FALSE)
        research_attempts == Get(s, "research_attempts", 0)
        analysis_attempts == Get(s, "analysis_attempts", 0)
        max_retries == Get(s, "max_retries", DefaultMaxRetries)
    IN  IF research_attempts >= max_retries /\ ~research_complete
        THEN [next_agent |-> "END", workflow_complete |-> TRUE,
              messages |-> <<MsgResearchExhausted>>]
        ELSE IF analysis_attempts >= max_retries /\ ~critic_approved
        THEN [next_agent |-> "END", workflow_complete |-> TRUE,
              messages |-> <<MsgAnalysisExhausted>>]
        ELSE IF critic_approved
        THEN [next_agent |-> "END", workflow_complete |-> TRUE]
        ELSE IF ~research_complete
        THEN [next_agent |-> "research", workflow_complete |-> FALSE]
        ELSE IF research_complete /\ ~analysis_complete
                /\ ~TruthyText(Get(s, "critic_feedback", None))
        THEN [next_agent |-> "analysis", workflow_complete |-> FALSE]
        ELSE IF analysis_complete /\ ~critic_approved
        THEN IF TruthyText(Get(s, "critic_feedback", None))
             THEN [next_agent |-> "analysis", workflow_complete |-> FALSE]
             ELSE [next_agent |-> "critic", workflow_complete |-> FALSE]
        ELSE [next_agent |-> "END", workflow_complete |-> TRUE,
              messages |-> <<MsgUnexpected>>]

\* SupervisorAgent.route: the partial update it returns for state s.
route(s) ==
    LET research_complete == Get(s, "research_complete", FALSE)
        analysis_complete == Get(s, "analysis_complete", FALSE)
        critic_approved == Get(s, "critic_approved", FALSE)
        research_attempts == Get(s, "research_attempts", 0)
        analysis_attempts == Get(s, "analysis_attempts", 0)
        max_retries == Get(s, "max_retries", DefaultMaxRetries)
    IN  IF research_attempts >= max_retries /\ ~research_complete
        THEN [next_agent |-> "END", workflow_complete |-> TRUE,
              messages |-> <<MsgResearchExhausted>>]
        ELSE IF analysis_attempts >= max_retries /\ ~critic_approved
        THEN [next_agent |-> "END", workflow_complete |-> TRUE,
              messages |-> <<MsgAnalysisExhausted>>]
        ELSE IF critic_approved
        THEN [next_agent |-> "END", workflow_complete |-> TRUE]
        ELSE IF ~research_complete
        THEN [next_agent |-> "research", workflow_complete |-> FALSE]
        ELSE IF research_complete /\ ~analysis_complete
        THEN [next_agent |-> "analysis", workflow_complete |-> FALSE]
        ELSE IF analysis_complete /\ ~critic_approved
        THEN IF TruthyText(Get(s, "critic_feedback", None))
             THEN [next_agent |-> "analysis", workflow_complete |-> FALSE]
             ELSE [next_agent |-> "critic", workflow_complete |-> FALSE]
        ELSE [next_agent |-> "END", workflow_complete |-> TRUE,
              messages |-> <<MsgUnexpected>>]

\* Merge, had the message log been overwritten like every other key.
MergeOverwritesMessages(s, u) ==
    [k \in DOMAIN s \cup DOMAIN u |->
        IF k \notin DOMAIN u THEN s[k]
        ELSE u[k]]

\* The graph's state update: the returned keys overwrite, the message log
\* (Annotated[..., add_messages]) appends.
Merge(s, u) ==
    [k \in DOMAIN s \cup DOMAIN u |->
        IF k \notin DOMAIN u THEN s[k]
        ELSE IF k = "messages" THEN Get(s, "messages", <<>>) \o u[k]
        ELSE u[k]]

\* route_after_supervisor: the conditional edge out of the supervisor node.
route_after_supervisor(s) == Get(s, "next_agent", "END")

\* ------------------------------------------------------- external sources

\* What the vector index can hold for a name (the payload of the nearest
\* point; its name need not be the name asked for).
P_Water == [name |-> T_Water, purpose |-> "Solvent", safety_score |-> Some(1),
            concerns |-> <<T_none>>, description |-> "Universal solvent"]
P_Fragrance == [name |-> T_Fragrance, purpose |-> "Scent", safety_score |-> Some(7),
                concerns |-> <<T_SkinIrritation>>, description |-> "Scent blend"]
P_Oil == [name |-> T_ParfumOil, purpose |-> "Emollient", safety_score |-> Some(4),
          concerns |-> <<T_Comedogenic>>, description |-> "Scented oil"]

\* IngredientTools.ingredient_lookup, for one outcome o of the index query:
\* a hit (payload, score), no point found, or an exception.
ingredient_lookup(ingredient_name, o) ==
    IF o.kind = "hit"
    THEN [name |-> Get(o.payload, "name", ingredient_name),
          purpose |-> Get(o.payload, "purpose", ""),
          safety_score |-> Get(o.payload, "safety_score", None),
          concerns |-> Get(o.payload, "concerns", <<T_none>>),
          description |-> Get(o.payload, "description", ""),
          confidence |-> o.score,
          source |-> "qdrant"]
    ELSE IF o.kind = "none"
    THEN [name |-> ingredient_name, purpose |-> "Unknown", safety_score |-> None,
          concerns |-> <<T_NoDataAvailable>>, description |-> "",
          confidence |-> 0, source |-> "not_found"]
    ELSE [name |-> ingredient_name, purpose |-> "Error", safety_score |-> None,
          concerns |-> <<T_LookupError>>, description |-> "",
          confidence |-> 0, source |-> "error"]

\* The purpose tavily_search reads off the combined content; o.words is the
\* set of keyword families found in it.
WebPurpose(words) ==
    IF "moisturizer" \in words THEN "Moisturizing agent"
    ELSE IF "preservative" \in words THEN "Preservative"
    ELSE IF "antioxidant" \in words THEN "Antioxidant"
    ELSE IF "surfactant" \in words THEN "Cleansing agent"
    ELSE IF "emulsifier" \in words THEN "Emulsifier"
    ELSE IF "fragrance" \in words THEN "Fragrance"
    ELSE "Unknown purpose"

\* IngredientTools.tavily_search, for one outcome o of the web search: no
\* client configured, no results, an exception, or o.n results whose
\* content holds the keyword families o.words.
tavily_search(ingredient_name, o) ==
    IF o.kind = "unavailable"
    THEN [name |-> ingredient_name, purpose |-> "Web search unavailable",
          safety_score |-> Some(5), concerns |-> <<T_NoWebSearch>>,
          description |-> "Tavily API key not configured",
          confidence |-> 30, source |-> "tavily_unavailable"]
    ELSE IF o.kind = "no_results"
    THEN [name |-> ingredient_name, purpose |-> "Unknown",
          safety_score |-> Some(5), concerns |-> <<T_NoWebResults>>,
          description |-> "", confidence |-> 20, source |-> "tavily_no_results"]
    ELSE IF o.kind = "error"
    THEN [name |-> ingredient_name, purpose |-> "Search error",
          safety_score |-> Some(5), concerns |-> <<T_WebSearchError>>,
          description |-> "", confidence |-> 10, source |-> "tavily_error"]
    ELSE LET c1 == IF "irritat" \in o.words THEN <<T_potential_irritation>> ELSE <<>>
             s1 == IF "irritat" \in o.words THEN Max(6, 5) ELSE 5
             c2 == IF "toxic" \in o.words THEN c1 \o <<T_toxicity_concerns>> ELSE c1
             s2 == IF "toxic" \in o.words THEN Max(7, s1) ELSE s1
             c3 == IF "comedogenic" \in o.words THEN c2 \o <<T_may_clog_pores>> ELSE c2
             s3 == IF "comedogenic" \in o.words THEN Max(6, s2) ELSE s2
             c4 == IF "safe" \in o.words /\ c3 = <<>> THEN <<T_generally_safe>> ELSE c3
             s4 == IF "safe" \in o.words THEN Min(3, s3) ELSE s3
         IN  [name |-> ingredient_name, purpose |-> WebPurpose(o.words),
              safety_score |-> Some(s4),
              concerns |-> IF c4 = <<>> THEN <<T_insufficient_data>> ELSE c4,
              description |-> "content",
              confidence |-> IF o.n >= 2 THEN 60 ELSE 40,
              source |-> "tavily_web_search"]

\* ---------------------------------------------------------------- agents

\* ResearchOne, had it taken the web result whenever it searched.
ResearchOneAlwaysTakesWeb(ingredient_name, user_skin_type, user_allergies, o) ==
    LET primary == ingredient_lookup(ingredient_name, o.primary)
        searched == primary.confidence < 70
        web_data == tavily_search(ingredient_name, o.web)
        used_tavily == searched
    IN  Bind(IF used_tavily THEN web_data ELSE primary, LAMBDA data :
        Bind(safety_scorer(data, user_skin_type, user_allergies), LAMBDA score_result :
        Bind(allergen_matcher(ingredient_name, user_allergies), LAMBDA allergen_result :
        [record |->
            [name |-> data.name, purpose |-> data.purpose,
             safety_score |-> data.safety_score, concerns |-> data.concerns,
             description |-> data.description, confidence |-> data.confidence,
             source |-> data.source,
             personalized_score |-> score_result.personalized_score,
             base_score |-> score_result.base_score,
             recommendation |-> score_result.recommendation,
             score_reasoning |-> score_result.reasoning,
             is_allergen |-> allergen_result.is_match,
             matched_allergen |-> allergen_result.matched_allergen,
             allergen_match_type |-> allergen_result.match_type],
         confidence |-> data.confidence,
         used_tavily |-> used_tavily,
         searched |-> searched])))

\* ResearchOne, had it taken the web result on equal confidence too.
ResearchOneReplacesOnTie(ingredient_name, user_skin_type, user_allergies, o) ==
    LET primary == ingredient_lookup(ingredient_name, o.primary)
        searched == primary.confidence < 70
        web_data == tavily_search(ingredient_name, o.web)
        used_tavily == searched /\ web_data.confidence >= primary.confidence
    IN  Bind(IF used_tavily THEN web_data ELSE primary, LAMBDA data :
        Bind(safety_scorer(data, user_skin_type, user_allergies), LAMBDA score_result :
        Bind(allergen_matcher(ingredient_name, user_allergies), LAMBDA allergen_result :
        [record |->
            [name |-> data.name, purpose |-> data.purpose,
             safety_score |-> data.safety_score, concerns |-> data.concerns,
             description |-> data.description, confidence |-> data.confidence,
             source |-> data.source,
             personalized_score |-> score_result.personalized_score,
             base_score |-> score_result.base_score,
             recommendation |-> score_result.recommendation,
             score_reasoning |-> score_result.reasoning,
             is_allergen |-> allergen_result.is_match,
             matched_allergen |-> allergen_result.matched_allergen,
             allergen_match_type |-> allergen_result.match_type],
         confidence |-> data.confidence,
         used_tavily |-> used_tavily,
         searched |-> searched])))

\* The loop body of ResearchAgent.run for one ingredient: the record it
\* appends, the confidence it adds and whether the web result was used.
\* o.primary and o.web are the outcomes of the two sources.
ResearchOne(ingredient_name, user_skin_type, user_allergies, o) ==
    LET primary == ingredient_lookup(ingredient_name, o.primary)
        searched == primary.confidence < 70
        web_data == tavily_search(ingredient_name, o.web)
        used_tavily == searched /\ web_data.confidence > primary.confidence
    IN  Bind(IF used_tavily THEN web_data ELSE primary, LAMBDA data :
        Bind(safety_scorer(data, user_skin_type, user_allergies), LAMBDA score_result :
        Bind(allergen_matcher(ingredient_name, user_allergies), LAMBDA allergen_result :
        [record |->
            [name |-> data.name, purpose |-> data.purpose,
             safety_score |-> data.safety_score, concerns |-> data.concerns,
             description |-> data.description, confidence |-> data.confidence,
             source |-> data.source,
             personalized_score |-> score_result.personalized_score,
             base_score |-> score_result.base_score,
             recommendation |-> score_result.recommendation,
             score_reasoning |-> score_result.reasoning,
             is_allergen |-> allergen_result.is_match,
             matched_allergen |-> allergen_result.matched_allergen,
             allergen_match_type |-> allergen_result.match_type],
         confidence |-> data.confidence,
         used_tavily |-> used_tavily,
         searched |-> searched])))

\* total_confidence after the first i ingredients.
RECURSIVE SumConfidence(_, _)
SumConfidence(one, i) ==
    IF i = 0 THEN FloatOf(0)
    ELSE FloatAdd(SumConfidence(one, i - 1), FloatOf(one[i].confidence))

\* research_run, had it not counted an attempt made with no ingredients.
research_runEmptyNotCounted(s, outs) ==
    LET ingredient_names == Get(s, "ingredient_names", <<>>)
        research_attempts == Get(s, "research_attempts", 0)
        user_skin_type == Get(s, "skin_type", "normal")
        user_allergies == Get(s, "allergies", <<>>)
        n == Len(ingredient_names)
    IN  IF n = 0
        THEN [research_complete |-> FALSE,
              research_attempts |-> research_attempts,
              messages |-> << <<"No ingredients to analyze. Please provide ingredient names.">> >>]
        ELSE Bind([i \in 1..n |->
                     ResearchOne(ingredient_names[i], user_skin_type, user_allergies, outs[i])],
                  LAMBDA one :
             Bind(Cardinality({i \in 1..n : one[i].used_tavily}), LAMBDA tavily_hits :
             Bind(FloatDiv(SumConfidence(one, n), n), LAMBDA avg_confidence :
             [research_complete |-> FloatGE(avg_confidence, FloatOf(50)),
              ingredient_data |-> [i \in 1..n |-> one[i].record],
              research_confidence |-> avg_confidence,
              research_attempts |-> research_attempts + 1,
              qdrant_hits |-> n - tavily_hits,
              tavily_hits |-> tavily_hits,
              messages |-> << <<"Researched", n, avg_confidence>> >>])))

\* research_run, had it listed the records last ingredient first.
research_runReversed(s, outs) ==
    LET ingredient_names == Get(s, "ingredient_names", <<>>)
        research_attempts == Get(s, "research_attempts", 0)
        user_skin_type == Get(s, "skin_type", "normal")
        user_allergies == Get(s, "allergies", <<>>)
        n == Len(ingredient_names)
    IN  IF n = 0
        THEN [research_complete |-> FALSE,
              research_attempts |-> research_attempts + 1,
              messages |-> << <<"No ingredients to analyze. Please provide ingredient names.">> >>]
        ELSE Bind([i \in 1..n |->
                     ResearchOne(ingredient_names[i], user_skin_type, user_allergies, outs[i])],
                  LAMBDA one :
             Bind(Cardinality({i \in 1..n : one[i].used_tavily}), LAMBDA tavily_hits :
             Bind(FloatDiv(SumConfidence(one, n), n), LAMBDA avg_confidence :
             [research_complete |-> FloatGE(avg_confidence, FloatOf(50)),
              ingredient_data |-> [i \in 1..n |-> one[n + 1 - i].record],
              research_confidence |-> avg_confidence,
              research_attempts |-> research_attempts + 1,
              qdrant_hits |-> n - tavily_hits,
              tavily_hits |-> tavily_hits,
              messages |-> << <<"Researched", n, avg_confidence>> >>])))

\* research_run, had it added the hits to those of the attempt before.
research_runAccumulatesHits(s, outs) ==
    LET ingredient_names == Get(s, "ingredient_names", <<>>)
        research_attempts == Get(s, "research_attempts", 0)
        user_skin_type == Get(s, "skin_type", "normal")
        user_allergies == Get(s, "allergies", <<>>)
        n == Len(ingredient_names)
    IN  IF n = 0
        THEN [research_complete |-> FALSE,
              research_attempts |-> research_attempts + 1,
              messages |-> << <<"No ingredients to analyze. Please provide ingredient names.">> >>]
        ELSE Bind([i \in 1..n |->
                     ResearchOne(ingredient_names[i], user_skin_type, user_allergies, outs[i])],
                  LAMBDA one :
             Bind(Cardinality({i \in 1..n : one[i].used_tavily}), LAMBDA tavily_hits :
             Bind(FloatDiv(SumConfidence(one, n), n), LAMBDA avg_confidence :
             [research_complete |-> FloatGE(avg_confidence, FloatOf(50)),
              ingredient_data |-> [i \in 1..n |-> one[i].record],
              research_confidence |-> avg_confidence,
              research_attempts |-> research_attempts + 1,
              qdrant_hits |-> Get(s, "qdrant_hits", 0) + n - tavily_hits,
              tavily_hits |-> Get(s, "tavily_hits", 0) + tavily_hits,
              messages |-> << <<"Researched", n, avg_confidence>> >>])))

\* ResearchAgent.run: the partial update it returns. outs[i] is what the
\* two sources answer for the i-th ingredient.
research_run(s, outs) ==
    LET ingredient_names == Get(s, "ingredient_names", <<>>)
        research_attempts == Get(s, "research_attempts", 0)
        user_skin_type == Get(s, "skin_type", "normal")
        user_allergies == Get(s, "allergies", <<>>)
        n == Len(ingredient_names)
    IN  IF n = 0
        THEN [research_complete |-> FALSE,
              research_attempts |-> research_attempts + 1,
              messages |-> << <<"No ingredients to analyze. Please provide ingredient names.">> >>]
        ELSE Bind([i \in 1..n |->
                     ResearchOne(ingredient_names[i], user_skin_type, user_allergies, outs[i])],
                  LAMBDA one :
             Bind(Cardinality({i \in 1..n : one[i].used_tavily}), LAMBDA tavily_hits :
             Bind(FloatDiv(SumConfidence(one, n), n), LAMBDA avg_confidence :
             [research_complete |-> FloatGE(avg_confidence, FloatOf(50)),
              ingredient_data |-> [i \in 1..n |-> one[i].record],
              research_confidence |-> avg_confidence,
              research_attempts |-> research_attempts + 1,
              qdrant_hits |-> n - tavily_hits,
              tavily_hits |-> tavily_hits,
              messages |-> << <<"Researched", n, avg_confidence>> >>])))

\* The tool calls one ResearchAgent.run makes: a lookup per ingredient and
\* a web search per ingredient whose lookup confidence is below 0.7.
research_tool_calls(s, outs) ==
    LET ingredient_names == Get(s, "ingredient_names", <<>>)
        n == Len(ingredient_names)
    IN  n + Cardinality({i \in 1..n :
                ingredient_lookup(ingredient_names[i], outs[i].primary).confidence < 70})

\* bool(x) of an Optional[str] held as a TLA+ string (the report text).
TruthyStr(t) == t # None /\ t[1] # ""

\* analysis_run, had it dropped the stored report when the model call fails.
analysis_runErrorClearsReport(s, o) ==
    LET ingredient_data == Get(s, "ingredient_data", <<>>)
        analysis_attempts == Get(s, "analysis_attempts", 0)
    IN  IF ingredient_data = <<>>
        THEN [analysis_complete |-> FALSE,
              analysis_attempts |-> analysis_attempts + 1,
              messages |-> << <<"No ingredient data available for analysis.">> >>]
        ELSE IF o.kind = "text"
        THEN [analysis_complete |-> TRUE,
              safety_analysis |-> Some(o.text),
              analysis_attempts |-> analysis_attempts + 1,
              critic_feedback |-> None,
              messages |-> << <<"Generated personalized safety analysis", Len(ingredient_data)>> >>]
        ELSE [analysis_complete |-> FALSE,
              safety_analysis |-> None,
              analysis_attempts |-> analysis_attempts + 1,
              messages |-> << <<"Error generating analysis">> >>]

\* analysis_run, had it emptied the allergen list once the report is written.
analysis_runClearsAllergies(s, o) ==
    LET ingredient_data == Get(s, "ingredient_data", <<>>)
        analysis_attempts == Get(s, "analysis_attempts", 0)
    IN  IF ingredient_data = <<>>
        THEN [analysis_complete |-> FALSE,
              analysis_attempts |-> analysis_attempts + 1,
              messages |-> << <<"No ingredient data available for analysis.">> >>]
        ELSE IF o.kind = "text"
        THEN [analysis_complete |-> TRUE,
              safety_analysis |-> Some(o.text),
              analysis_attempts |-> analysis_attempts + 1,
              critic_feedback |-> None,
              allergies |-> <<>>,
              messages |-> << <<"Generated personalized safety analysis", Len(ingredient_data)>> >>]
        ELSE [analysis_complete |-> FALSE,
              analysis_attempts |-> analysis_attempts + 1,
              messages |-> << <<"Error generating analysis">> >>]

\* analysis_run, had it asked the model even without ingredient records.
analysis_runNoDataCallsModel(s, o) ==
    LET ingredient_data == Get(s, "ingredient_data", <<>>)
        analysis_attempts == Get(s, "analysis_attempts", 0)
    IN  IF ingredient_data = <<>> /\ o.kind # "text"
        THEN [analysis_complete |-> FALSE,
              analysis_attempts |-> analysis_attempts + 1,
              messages |-> << <<"No ingredient data available for analysis.">> >>]
        ELSE IF o.kind = "text"
        THEN [analysis_complete |-> TRUE,
              safety_analysis |-> Some(o.text),
              analysis_attempts |-> analysis_attempts + 1,
              critic_feedback |-> None,
              messages |-> << <<"Generated personalized safety analysis", Len(ingredient_data)>> >>]
        ELSE [analysis_complete |-> FALSE,
              analysis_attempts |-> analysis_attempts + 1,
              messages |-> << <<"Error generating analysis">> >>]

\* AnalysisAgent.run: the partial update it returns. o is the outcome of
\* the generate_content call: a text, or an exception.
analysis_run(s, o) ==
    LET ingredient_data == Get(s, "ingredient_data", <<>>)
        analysis_attempts == Get(s, "analysis_attempts", 0)
    IN  IF ingredient_data = <<>>
        THEN [analysis_complete |-> FALSE,
              analysis_attempts |-> analysis_attempts + 1,
              messages |-> << <<"No ingredient data available for analysis.">> >>]
        ELSE IF o.kind = "text"
        THEN [analysis_complete |-> TRUE,
              safety_analysis |-> Some(o.text),
              analysis_attempts |-> analysis_attempts + 1,
              critic_feedback |-> None,
              messages |-> << <<"Generated personalized safety analysis", Len(ingredient_data)>> >>]
        ELSE [analysis_complete |-> FALSE,
              analysis_attempts |-> analysis_attempts + 1,
              messages |-> << <<"Error generating analysis">> >>]

\* The generate_content calls one AnalysisAgent.run makes: none when it
\* returns at the missing-data test, one otherwise.
analysis_generate_calls(s) ==
    IF Get(s, "ingredient_data", <<>>) = <<>> THEN 0 ELSE 1

\* build_analysis_prompt, had it left the critic's feedback out.
build_analysis_promptNoFeedback(s) ==
    LET critic_feedback == Get(s, "critic_feedback", None)
    IN  [ingredient_data |-> Get(s, "ingredient_data", <<>>),
         skin_type |-> Get(s, "skin_type", "normal"),
         allergies |-> Get(s, "allergies", <<>>),
         expertise_level |-> Get(s, "expertise_level", "beginner"),
         feedback_section |-> None]

\* The prompt _build_analysis_prompt builds, as far as the state decides
\* it: the data and profile it shows, and the feedback section it appends.
build_analysis_prompt(s) ==
    LET critic_feedback == Get(s, "critic_feedback", None)
    IN  [ingredient_data |-> Get(s, "ingredient_data", <<>>),
         skin_type |-> Get(s, "skin_type", "normal"),
         allergies |-> Get(s, "allergies", <<>>),
         expertise_level |-> Get(s, "expertise_level", "beginner"),
         feedback_section |-> IF critic_feedback # None /\ critic_feedback[1] # <<>>
                              THEN critic_feedback ELSE None]

\* The critic's reading of the validation text.
is_approved(validation_result) ==
    /\ Contains(Upper(validation_result), T_APPROVE)
    /\ ~Contains(Upper(validation_result), T_REJECT)

\* critic_run, had it rejected the report when the model call fails.
critic_runFailClosed(s, o) ==
    LET safety_analysis == Get(s, "safety_analysis", None)
        total_critic_rejections == Get(s, "total_critic_rejections", 0)
    IN  IF ~TruthyStr(safety_analysis)
        THEN [critic_approved |-> FALSE,
              critic_feedback |-> Some(T_NoAnalysisProvided),
              messages |-> << <<"No analysis available for validation.">> >>]
        ELSE IF o.kind = "text"
        THEN IF is_approved(o.text)
             THEN [critic_approved |-> TRUE,
                   critic_feedback |-> None,
                   messages |-> << <<"Analysis validated and approved by quality critic.">> >>]
             ELSE [critic_approved |-> FALSE,
                   critic_feedback |-> Some(o.text),
                   analysis_complete |-> FALSE,
                   total_critic_rejections |-> total_critic_rejections + 1,
                   messages |-> << <<"Analysis rejected by critic. Generating improved version...">> >>]
        ELSE [critic_approved |-> FALSE,
              critic_feedback |-> None,
              messages |-> << <<"Critic validation error, proceeding with analysis">> >>]

\* critic_run, had it counted an approval as a rejection.
critic_runCountsApproval(s, o) ==
    LET safety_analysis == Get(s, "safety_analysis", None)
        total_critic_rejections == Get(s, "total_critic_rejections", 0)
    IN  IF ~TruthyStr(safety_analysis)
        THEN [critic_approved |-> FALSE,
              critic_feedback |-> Some(T_NoAnalysisProvided),
              messages |-> << <<"No analysis available for validation.">> >>]
        ELSE IF o.kind = "text"
        THEN IF is_approved(o.text)
             THEN [critic_approved |-> TRUE,
                   critic_feedback |-> None,
                   total_critic_rejections |-> total_critic_rejections + 1,
                   messages |-> << <<"Analysis validated and approved by quality critic.">> >>]
             ELSE [critic_approved |-> FALSE,
                   critic_feedback |-> Some(o.text),
                   analysis_complete |-> FALSE,
                   total_critic_rejections |-> total_critic_rejections + 1,
                   messages |-> << <<"Analysis rejected by critic. Generating improved version...">> >>]
        ELSE [critic_approved |-> TRUE,
              critic_feedback |-> None,
              messages |-> << <<"Critic validation error, proceeding with analysis">> >>]

\* CriticAgent.run: the partial update it returns. o is the outcome of the
\* generate_content call: a text, or an exception.
critic_run(s, o) ==
    LET safety_analysis == Get(s, "safety_analysis", None)
        total_critic_rejections == Get(s, "total_critic_rejections", 0)
    IN  IF ~TruthyStr(safety_analysis)
        THEN [critic_approved |-> FALSE,
              critic_feedback |-> Some(T_NoAnalysisProvided),
              messages |-> << <<"No analysis available for validation.">> >>]
        ELSE IF o.kind = "text"
        THEN IF is_approved(o.text)
             THEN [critic_approved |-> TRUE,
                   critic_feedback |-> None,
                   messages |-> << <<"Analysis validated and approved by quality critic.">> >>]
             ELSE [critic_approved |-> FALSE,
                   critic_feedback |-> Some(o.text),
                   analysis_complete |-> FALSE,
                   total_critic_rejections |-> total_critic_rejections + 1,
                   messages |-> << <<"Analysis rejected by critic. Generating improved version...">> >>]
        ELSE [critic_approved |-> TRUE,
              critic_feedback |-> None,
              messages |-> << <<"Critic validation error, proceeding with analysis">> >>]

\* ------------------------------------------------------------ the graph

\* The retry ceiling create_initial_state writes into a new state.
InitialMaxRetries == 2

\* create_initial_state
create_initial_state(ingredient_names, user_name, skin_type, allergies, expertise_level, session_id) ==
    [user_name |-> user_name,
     skin_type |-> skin_type,
     allergies |-> IF allergies = None THEN <<>> ELSE allergies,
     expertise_level |-> expertise_level,
     ingredient_names |-> ingredient_names,
     messages |-> <<>>,
     session_id |-> IF session_id = None THEN "uuid4" ELSE session_id[1],
     research_complete |-> FALSE,
     ingredient_data |-> <<>>,
     research_confidence |-> FloatOf(0),
     analysis_complete |-> FALSE,
     safety_analysis |-> None,
     critic_approved |-> FALSE,
     critic_feedback |-> None,
     research_attempts |-> 0,
     analysis_attempts |-> 0,
     max_retries |-> InitialMaxRetries,
     next_agent |-> "research",
     workflow_complete |-> FALSE,
     analysis_start_time |-> Some("now"),
     analysis_end_time |-> None,
     qdrant_hits |-> 0,
     tavily_hits |-> 0,
     total_critic_rejections |-> 0,
     created_at |-> Some("now"),
     updated_at |-> Some("now")]

\* The requests a run is started with.
Requests ==
    { [ingredient_names |-> <<>>, user_name |-> "User", skin_type |-> "normal",
       allergies |-> None, expertise_level |-> "beginner"],
      [ingredient_names |-> <<T_Water>>, user_name |-> "Sarah", skin_type |-> "normal",
       allergies |-> <<>>, expertise_level |-> "beginner"],
      [ingredient_names |-> <<T_Parfum>>, user_name |-> "Aisha", skin_type |-> "sensitive",
       allergies |-> <<T_Fragrance, T_Parfum>>, expertise_level |-> "intermediate"] }

\* What the sources answer during a run.
RunLookupOutcomes ==
    { [kind |-> "error"],
      [kind |-> "hit", payload |-> P_Fragrance, score |-> 90] }
RunWebOutcomes ==
    { [kind |-> "error"],
      [kind |-> "results", words |-> {"fragrance", "irritat"}, n |-> 3] }
RunSourceOutcomes == [primary : RunLookupOutcomes, web : RunWebOutcomes]

\* What the language model answers during a run.
RunReportOutcomes ==
    { [kind |-> "error"], [kind |-> "text", text |-> ""],
      [kind |-> "text", text |-> "report A"], [kind |-> "text", text |-> "report B"] }
RunVerdictOutcomes ==
    { [kind |-> "error"], [kind |-> "text", text |-> T_VerdictApprove],
      [kind |-> "text", text |-> T_VerdictReject], [kind |-> "text", text |-> <<>>] }

NoCall == [fn |-> "none"]

\* run_analysis up to app.invoke: the initial state enters the graph at the
\* supervisor. max_retries is drawn from 0..MaxRetriesBound in place of the
\* 2 that create_initial_state writes, the router reading it from the state.
Init ==
    /\ \E r \in Requests, m \in 0..MaxRetriesBound :
          state = [create_initial_state(r.ingredient_names, r.user_name, r.skin_type,
                                        r.allergies, r.expertise_level, None)
                      EXCEPT !.max_retries = m]
    /\ node = "supervisor"
    /\ trace = <<>>
    /\ call = NoCall
    /\ ret = None
    /\ manager = None
    /\ manager_calls = <<>>

\* The supervisor node and the conditional edge that follows it.
Supervisor ==
    /\ node = "supervisor"
    /\ \E u \in {route(state)} : state' = Merge(state, u)
    /\ node' = route_after_supervisor(state')
    /\ UNCHANGED <<trace, call, ret, manager, manager_calls>>

\* The research node, then the edge back to the supervisor.
Research ==
    /\ node = "research"
    /\ \E outs \in [1..Len(state.ingredient_names) -> RunSourceOutcomes] :
          \E u \in {research_run(state, outs)} :
              /\ state' = Merge(state, u)
              /\ trace' = Append(trace,
                    [stage |-> "research",
                     outcome |-> IF "ingredient_data" \notin DOMAIN u THEN "no_ingredients"
                                 ELSE IF u.research_complete THEN "complete" ELSE "incomplete",
                     text |-> None,
                     request |-> None,
                     tool_calls |-> research_tool_calls(state, outs)])
    /\ node' = "supervisor"
    /\ UNCHANGED <<call, ret, manager, manager_calls>>

\* The analysis node, then the edge back to the supervisor.
Analysis ==
    /\ node = "analysis"
    /\ \E o \in RunReportOutcomes :
          \E u \in {analysis_run(state, o)} :
              /\ state' = Merge(state, u)
              /\ trace' = Append(trace,
                    [stage |-> "analysis",
                     outcome |-> IF state.ingredient_data = <<>> THEN "no_data"
                                 ELSE IF o.kind = "text" THEN "generated" ELSE "error",
                     text |-> IF state.ingredient_data # <<>> /\ o.kind = "text"
                              THEN Some(o.text) ELSE None,
                     request |-> IF state.ingredient_data # <<>>
                                 THEN build_analysis_prompt(state).feedback_section ELSE None,
                     tool_calls |-> 0])
    /\ node' = "supervisor"
    /\ UNCHANGED <<call, ret, manager, manager_calls>>

\* The critic node, then the edge back to the supervisor.
Critic ==
    /\ node = "critic"
    /\ \E o \in RunVerdictOutcomes :
          \E u \in {critic_run(state, o)} :
              /\ state' = Merge(state, u)
              /\ trace' = Append(trace,
                    [stage |-> "critic",
                     outcome |-> IF ~TruthyStr(state.safety_analysis) THEN "no_analysis"
                                 ELSE IF o.kind = "error" THEN "error"
                                 ELSE IF u.critic_approved THEN "approved" ELSE "rejected",
                     text |-> IF TruthyStr(state.safety_analysis) /\ o.kind = "text"
                                 /\ ~u.critic_approved
                              THEN Some(o.text) ELSE None,
                     request |-> None,
                     tool_calls |-> 0])
    /\ node' = "supervisor"
    /\ UNCHANGED <<call, ret, manager, manager_calls>>

Next == Supervisor \/ Research \/ Analysis \/ Critic

Spec == Init /\ [][Next]_vars

\* The graph runs a node whenever one is due (app.invoke loops until END).
\* This is WF_vars(Next) with its enabling condition written out: Next is
\* enabled exactly when node # "END", since every node has an outcome to take.
FairSpec == Spec /\ ([]<>(node = "END") \/ []<><<Next>>_vars)

\* ------------------------------------------------------ the memory layer

\* Hours of inactivity after which a session is no longer active.
SessionExpiryHours == 1

\* SessionManager.__init__: no sessions yet. redis_connected is whether the
\* long-term store answers; longterm is what it holds per user, most recent
\* first. Times are in hours.
new_session_manager(redis_connected) ==
    [sessions |-> <<>>, user_sessions |-> <<>>,
     use_redis |-> TRUE, redis_connected |-> redis_connected, longterm |-> <<>>]

\* SessionManager._is_session_active
is_session_active(m, session_id, now) ==
    /\ session_id \in DOMAIN m.sessions
    /\ now - m.sessions[session_id].last_activity < SessionExpiryHours

\* SessionManager.get_or_create_session: the manager after the call and the
\* session id returned. A new id (uuid4) is one no session has.
get_or_create_session(m, user_name, now) ==
    IF /\ user_name \in DOMAIN m.user_sessions
       /\ is_session_active(m, m.user_sessions[user_name], now)
    THEN [manager |-> m, session_id |-> m.user_sessions[user_name]]
    ELSE LET session_id == Cardinality(DOMAIN m.sessions) + 1
         IN  [manager |->
                 [m EXCEPT
                    !.user_sessions = (user_name :> session_id) @@ m.user_sessions,
                    !.sessions = (session_id :>
                        [session_id |-> session_id, user_name |-> user_name,
                         created_at |-> now, last_activity |-> now,
                         conversation_history |-> <<>>, analysis_history |-> <<>>,
                         user_profile |-> <<>>]) @@ m.sessions],
              session_id |-> session_id]

\* SessionManager.get_conversation_history
get_conversation_history(m, session_id) ==
    IF session_id \in DOMAIN m.sessions
    THEN m.sessions[session_id].conversation_history
    ELSE <<>>

\* RedisClient.add_analysis_to_history: the long-term store after the call.
add_analysis_to_history(longterm, user_name, analysis_result, now) ==
    LET history_entry ==
            [timestamp |-> now,
             session_id |-> Get(analysis_result, "session_id", None),
             ingredient_names |-> Get(analysis_result, "ingredient_names", <<>>),
             safety_analysis |-> Get(analysis_result, "safety_analysis", None),
             critic_approved |-> Get(analysis_result, "critic_approved", FALSE),
             research_confidence |-> Get(analysis_result, "research_confidence", FloatOf(0))]
        pushed == <<history_entry>> \o Get(longterm, user_name, <<>>)
    IN  (user_name :> SubSeq(pushed, 1, Min(Len(pushed), 100))) @@ longterm

\* SessionManager.add_to_history: the manager after the call. now is the
\* clock as read for the session's entry, redis_now the clock as
\* RedisClient.add_analysis_to_history reads it afterwards for its own.
add_to_history(m, session_id, analysis_result, now, redis_now) ==
    IF session_id \notin DOMAIN m.sessions THEN m
    ELSE LET history_entry ==
                 [timestamp |-> now,
                  ingredient_names |-> Get(analysis_result, "ingredient_names", <<>>),
                  safety_analysis |-> Get(analysis_result, "safety_analysis", None),
                  critic_approved |-> Get(analysis_result, "critic_approved", FALSE),
                  research_confidence |-> Get(analysis_result, "research_confidence", FloatOf(0))]
             session == m.sessions[session_id]
         IN  [m EXCEPT
                !.sessions[session_id] =
                    [session EXCEPT
                        !.analysis_history = Append(session.analysis_history, history_entry),
                        !.last_activity = now],
                !.longterm =
                    IF m.use_redis /\ m.redis_connected /\ session.user_name # ""
                    THEN add_analysis_to_history(m.longterm, session.user_name,
                                                 analysis_result, redis_now)
                    ELSE m.longterm]

\* RedisClient.get_analysis_history: the limit most recent entries.
redis_get_analysis_history(m, user_name, limit) ==
    IF ~m.redis_connected THEN <<>>
    ELSE LET entries == Get(m.longterm, user_name, <<>>)
         IN  SubSeq(entries, 1, Min(Len(entries), limit))

\* The first i entries of all_history without those whose timestamp an
\* earlier entry has (the seen set of get_analysis_history).
RECURSIVE UniqueByTimestamp(_, _)
UniqueByTimestamp(all_history, i) ==
    IF i = 0 THEN <<>>
    ELSE LET unique_history == UniqueByTimestamp(all_history, i - 1)
         IN  IF \E j \in 1..Len(unique_history) :
                    unique_history[j].timestamp = all_history[i].timestamp
             THEN unique_history
             ELSE Append(unique_history, all_history[i])

\* sorted(..., key=timestamp, reverse=True): latest first, entries of equal
\* timestamp in the order they had.
RECURSIVE SortedByTimestampDesc(_)
SortedByTimestampDesc(h) ==
    IF h = <<>> THEN <<>>
    ELSE LET rest == SortedByTimestampDesc(Tail(h))
             k == Cardinality({j \in 1..Len(rest) : rest[j].timestamp > Head(h).timestamp})
         IN  SubSeq(rest, 1, k) \o <<Head(h)>> \o SubSeq(rest, k + 1, Len(rest))

\* SessionManager.get_analysis_history
get_analysis_history(m, session_id, include_longterm) ==
    IF session_id \notin DOMAIN m.sessions THEN <<>>
    ELSE LET session == m.sessions[session_id]
             session_history == session.analysis_history
         IN  IF /\ include_longterm /\ m.use_redis /\ m.redis_connected
                /\ session.user_name # ""
             THEN Bind(session_history \o redis_get_analysis_history(m, session.user_name, 50),
                       LAMBDA all_history :
                  SortedByTimestampDesc(UniqueByTimestamp(all_history, Len(all_history))))
             ELSE session_history

\* ------------------------------------------- calls made outside a run

\* Largest attempt counter of a state handed to the router directly.
MaxAttemptsBound == 4
\* Longest allergen list handed to the tools directly.
MaxAllergens == 2

Idle ==
    /\ state = None
    /\ node = "idle"
    /\ trace = <<>>
    /\ ret = None
    /\ manager = None
    /\ manager_calls = <<>>

\* The workflow states the router is called on: every value of the fields
\* it reads, and of some it does not.
RouterStates ==
    { [create_initial_state(<<T_Water>>, "User", "normal", None, "beginner", None) EXCEPT
          !.research_complete = f[1], !.analysis_complete = f[2], !.critic_approved = f[3],
          !.critic_feedback = fb, !.research_attempts = ra, !.analysis_attempts = aa,
          !.max_retries = m, !.total_critic_rejections = rej, !.safety_analysis = sa]
      : f \in BOOLEAN \X BOOLEAN \X BOOLEAN,
        fb \in {None, Some(<<>>), Some(T_VerdictReject)},
        ra \in 0..MaxAttemptsBound, aa \in 0..MaxAttemptsBound, m \in 0..MaxRetriesBound,
        rej \in 0..1, sa \in {None, Some("report A")} }

InitRoute ==
    /\ Idle
    /\ \E s \in RouterStates : call = [fn |-> "route", state |-> s]

\* supervisor.route(state)
RouteCall ==
    /\ call.fn = "route"
    /\ ret = None
    /\ ret' = Some(route(call.state))
    /\ UNCHANGED <<state, node, trace, call, manager, manager_calls>>

NextRoute == RouteCall

SpecRoute == InitRoute /\ [][NextRoute]_vars

\* The names and allergens the tools are called with.
ToolNames == {T_Parfum, T_PARFUM, T_Water, T_ParfumOil, T_Par, T_AlcoholDenat}
ToolAllergens == {T_Fragrance, T_fragrance, T_Parfum, T_Par, T_ParfumOil, T_alcohol}
AllergenLists == UNION { [1..n -> ToolAllergens] : n \in 0..MaxAllergens }

InitMatch ==
    /\ Idle
    /\ \E n \in ToolNames, a \in AllergenLists :
          call = [fn |-> "allergen_matcher", ingredient_name |-> n, user_allergies |-> a]

\* tools.allergen_matcher(ingredient_name, user_allergies)
MatchCall ==
    /\ call.fn = "allergen_matcher"
    /\ ret = None
    /\ ret' = Some(allergen_matcher(call.ingredient_name, call.user_allergies))
    /\ UNCHANGED <<state, node, trace, call, manager, manager_calls>>

NextMatch == MatchCall

SpecMatch == InitMatch /\ [][NextMatch]_vars

\* The names of the synonym table, group by group, as written there and
\* as a product label or a user writes them.
SynonymNames ==
    { {T_fragrance, T_parfum, T_perfume, T_Fragrance, T_Parfum},
      {T_alcohol, T_alcohol_denat, T_ethanol, T_ethyl_alcohol, T_AlcoholDenat},
      {T_vitamin_e, T_tocopherol, T_tocopheryl_acetate, T_VitaminE, T_Tocopherol},
      {T_retinol, T_retinyl_palmitate, T_retinoic_acid, T_tretinoin, T_Retinol, T_Tretinoin} }

InitSynonym ==
    /\ Idle
    /\ \E g \in SynonymNames : \E x \in g, y \in g :
          call = [fn |-> "allergen_matcher", ingredient_name |-> x, user_allergies |-> <<y>>]

\* tools.allergen_matcher(X, [Y]) for two names of one synonym group
SpecSynonym == InitSynonym /\ [][NextMatch]_vars

\* The records and profiles the scorer is called with.
ScorerNames == {T_Water, T_Parfum, T_ParfumOil}
ScorerBaseScores == {None} \cup {Some(b) : b \in 1..10}
ScorerConcerns == {<<T_none>>, <<T_SkinIrritation>>, <<T_Comedogenic>>, <<T_may_clog_pores, T_potential_irritation>>}
SkinTypes == {"normal", "sensitive", "oily", "dry", "combination"}
ScorerAllergies == {<<>>, <<T_Fragrance, T_Parfum>>, <<T_Par>>, <<T_alcohol>>}

InitScorer ==
    /\ Idle
    /\ \E n \in ScorerNames, b \in ScorerBaseScores, c \in ScorerConcerns,
          k \in SkinTypes, a \in ScorerAllergies :
          call = [fn |-> "safety_scorer",
                  ingredient_data |-> [name |-> n, safety_score |-> b, concerns |-> c],
                  user_skin_type |-> k, user_allergies |-> a]

\* tools.safety_scorer(ingredient_data, user_skin_type, user_allergies)
ScorerCall ==
    /\ call.fn = "safety_scorer"
    /\ ret = None
    /\ ret' = Some(safety_scorer(call.ingredient_data, call.user_skin_type, call.user_allergies))
    /\ UNCHANGED <<state, node, trace, call, manager, manager_calls>>

NextScorer == ScorerCall

SpecScorer == InitScorer /\ [][NextScorer]_vars

\* Longest ingredient list handed to the research agent directly.
MaxIngredients == 4

\* The names on those lists, the first n of them on a list of n.
ResearchNames == <<T_Water, T_Parfum, T_ParfumOil, T_AlcoholDenat, T_Retinol, T_Tocopherol>>

\* What the two sources answer to such a call: the index fails, or finds a
\* point scored 0.6 or 0.7; the web search finds nothing (0.2) or three
\* results (0.6).
ResearchLookupOutcomes ==
    { [kind |-> "error"],
      [kind |-> "hit", payload |-> P_Water, score |-> 60],
      [kind |-> "hit", payload |-> P_Water, score |-> 70] }
ResearchWebOutcomes ==
    { [kind |-> "no_results"],
      [kind |-> "results", words |-> {"safe"}, n |-> 3] }

InitResearch ==
    /\ Idle
    /\ \E n \in 1..MaxIngredients :
          \E outs \in [1..n -> [primary : ResearchLookupOutcomes, web : ResearchWebOutcomes]] :
              call = [fn |-> "research",
                      state |-> create_initial_state(
                                    [i \in 1..n |-> ResearchNames[((i - 1) % Len(ResearchNames)) + 1]],
                                    "Aisha", "sensitive", <<T_Fragrance>>, "beginner", None),
                      outs |-> outs]

\* research_agent.run(state): the update it returns, and the ingredients
\* it called the web search for.
ResearchCall ==
    /\ call.fn = "research"
    /\ ret = None
    /\ ret' = Some([update |-> research_run(call.state, call.outs),
                    web_searched |->
                        {i \in 1..Len(call.outs) :
                            ResearchOne(call.state.ingredient_names[i], call.state.skin_type,
                                        call.state.allergies, call.outs[i]).searched}])
    /\ UNCHANGED <<state, node, trace, call, manager, manager_calls>>

NextResearch == ResearchCall

SpecResearch == InitResearch /\ [][NextResearch]_vars

\* The managers run_analysis_with_memory is handed at hour now: a new one,
\* or one holding a session of Sarah's last active this hour or the hour
\* before.
Managers(now) ==
    { new_session_manager(c) : c \in BOOLEAN } \cup
    { [get_or_create_session(new_session_manager(c), "Sarah", now).manager
          EXCEPT !.sessions[1].last_activity = t]
      : c \in BOOLEAN, t \in {now - SessionExpiryHours, now} }

\* memory_statement_after, had add_to_history come before run_analysis.
memory_statement_afterSavesFirst(statement) ==
    CASE statement = "get_or_create_session" -> "get_conversation_history"
      [] statement = "get_conversation_history" -> "add_to_history"
      [] statement = "add_to_history" -> "run_analysis"
      [] statement = "END" -> "return"

\* run_analysis_with_memory: the statement that follows each statement,
\* run_analysis being left at END.
memory_statement_after(statement) ==
    CASE statement = "get_or_create_session" -> "get_conversation_history"
      [] statement = "get_conversation_history" -> "run_analysis"
      [] statement = "END" -> "add_to_history"
      [] statement = "add_to_history" -> "return"

InitMemory ==
    /\ state = None
    /\ node = "get_or_create_session"
    /\ trace = <<>>
    /\ ret = None
    /\ manager_calls = <<>>
    /\ \E r \in Requests, now \in {SessionExpiryHours} :
          /\ call = [fn |-> "run_analysis_with_memory", request |-> r, now |-> now,
                     session_id |-> None]
          /\ manager \in Managers(now)

\* session_id = session_manager.get_or_create_session(user_name)
GetOrCreateSession ==
    /\ node = "get_or_create_session"
    /\ \E r \in {get_or_create_session(manager, call.request.user_name, call.now)} :
          /\ manager' = r.manager
          /\ call' = [call EXCEPT !.session_id = Some(r.session_id)]
    /\ manager_calls' = Append(manager_calls,
          [method |-> "get_or_create_session", stages_run |-> Len(trace),
           started |-> state # None, analysis_result |-> None])
    /\ node' = memory_statement_after(node)
    /\ UNCHANGED <<state, trace, ret>>

\* conversation_history = session_manager.get_conversation_history(session_id)
GetConversationHistory ==
    /\ node = "get_conversation_history"
    /\ manager_calls' = Append(manager_calls,
          [method |-> "get_conversation_history", stages_run |-> Len(trace),
           started |-> state # None, analysis_result |-> None])
    /\ node' = memory_statement_after(node)
    /\ UNCHANGED <<state, trace, call, ret, manager>>

\* result = run_analysis(..., session_id=session_id), up to app.invoke
RunAnalysis ==
    /\ node = "run_analysis"
    /\ state' = create_initial_state(call.request.ingredient_names, call.request.user_name,
                                     call.request.skin_type, call.request.allergies,
                                     call.request.expertise_level, call.session_id)
    /\ node' = "supervisor"
    /\ UNCHANGED <<trace, call, ret, manager, manager_calls>>

\* run_analysis returns the final state
RunAnalysisReturns ==
    /\ node = "END"
    /\ call.fn = "run_analysis_with_memory"
    /\ node' = memory_statement_after(node)
    /\ UNCHANGED <<state, trace, call, ret, manager, manager_calls>>

\* session_manager.add_to_history(session_id=session_id, analysis_result=result)
AddToHistory ==
    /\ node = "add_to_history"
    /\ manager' = add_to_history(manager, call.session_id[1], state, call.now, call.now)
    /\ manager_calls' = Append(manager_calls,
          [method |-> "add_to_history", stages_run |-> Len(trace),
           started |-> state # None, analysis_result |-> Some(state)])
    /\ node' = memory_statement_after(node)
    /\ UNCHANGED <<state, trace, call, ret>>

\* return result
Return ==
    /\ node = "return"
    /\ ret = None
    /\ ret' = Some(state)
    /\ node' = "returned"
    /\ UNCHANGED <<state, trace, call, manager, manager_calls>>

NextMemory ==
    \/ GetOrCreateSession \/ GetConversationHistory \/ RunAnalysis
    \/ Supervisor \/ Research \/ Analysis \/ Critic
    \/ RunAnalysisReturns \/ AddToHistory \/ Return

SpecMemory == InitMemory /\ [][NextMemory]_vars

\* The workflow states an agent is called on directly: with and without
\* ingredient records, a report and feedback, at every attempt count.
AgentStates ==
    { [create_initial_state(<<T_Water>>, "Aisha", "sensitive", <<T_Fragrance>>,
                            "beginner", None) EXCEPT
          !.ingredient_data = d, !.research_complete = d # <<>>,
          !.research_attempts = ra, !.analysis_attempts = aa,
          !.analysis_complete = sa # None, !.safety_analysis = sa,
          !.critic_feedback = fb, !.total_critic_rejections = rej]
      : d \in {<<>>,
               research_run([ingredient_names |-> <<T_Water>>],
                            <<[primary |-> [kind |-> "hit", payload |-> P_Water, score |-> 90],
                               web |-> [kind |-> "no_results"]]>>).ingredient_data},
        ra \in 0..MaxAttemptsBound, aa \in 0..MaxAttemptsBound,
        sa \in {None, Some(""), Some("report A")},
        fb \in {None, Some(T_VerdictReject)}, rej \in 0..1 }

\* The states the research agent is called on directly: no ingredient, one
\* or two, at every attempt count; and what the sources answer.
ResearchStates ==
    { [create_initial_state(names, "Aisha", "sensitive", <<T_Fragrance>>, "beginner", None)
          EXCEPT !.research_attempts = ra, !.analysis_attempts = aa]
      : names \in {<<>>, <<T_Water>>, <<T_Water, T_Parfum>>},
        ra \in 0..MaxAttemptsBound, aa \in 0..MaxAttemptsBound }

\* What the two sources answer to such a call: the index fails, finds no
\* point or finds one scored 0.6 or 0.7; the web search fails, is not
\* configured, finds nothing, or finds one result or three.
AgentSourceOutcomes ==
    [primary : { [kind |-> "error"], [kind |-> "none"],
                 [kind |-> "hit", payload |-> P_Fragrance, score |-> 60],
                 [kind |-> "hit", payload |-> P_Fragrance, score |-> 70] },
     web : { [kind |-> "error"], [kind |-> "unavailable"], [kind |-> "no_results"],
             [kind |-> "results", words |-> {"fragrance", "irritat"}, n |-> 1],
             [kind |-> "results", words |-> {"fragrance", "irritat"}, n |-> 3] }]

\* What the critic's model answers to such a call: the answers of a run,
\* a rejection in lower case, an approval whose rationale mentions
\* rejecting, and an answer with neither word.
AgentVerdictOutcomes ==
    RunVerdictOutcomes \cup
    { [kind |-> "text", text |-> t]
      : t \in {T_VerdictRejectLower, T_VerdictApproveMentionsReject, T_VerdictNeither} }

InitAgents ==
    /\ Idle
    /\ \/ \E s \in AgentStates, o \in RunReportOutcomes :
             call = [fn |-> "analysis", state |-> s, o |-> o]
       \/ \E s \in AgentStates, o \in AgentVerdictOutcomes :
             call = [fn |-> "critic", state |-> s, o |-> o]
       \/ \E s \in ResearchStates :
             \E outs \in [1..Len(s.ingredient_names) -> AgentSourceOutcomes] :
                 call = [fn |-> "research", state |-> s, outs |-> outs]
       \/ \E s \in AgentStates : call = [fn |-> "route", state |-> s]

\* analysis_agent.run(state)
AnalysisCall ==
    /\ call.fn = "analysis"
    /\ ret = None
    /\ ret' = Some(analysis_run(call.state, call.o))
    /\ UNCHANGED <<state, node, trace, call, manager, manager_calls>>

\* critic_agent.run(state)
CriticCall ==
    /\ call.fn = "critic"
    /\ ret = None
    /\ ret' = Some(critic_run(call.state, call.o))
    /\ UNCHANGED <<state, node, trace, call, manager, manager_calls>>

NextAgents == AnalysisCall \/ CriticCall \/ ResearchCall \/ RouteCall

SpecAgents == InitAgents /\ [][NextAgents]_vars

\* Most analyses added to one session's history.
MaxHistory == 3

\* The final state of the k-th analysis added: one ingredient, the k-th
\* name, and an approved report.
HistoryResult(k) ==
    [create_initial_state(<<ResearchNames[k]>>, "Aisha", "sensitive", <<T_Fragrance>>,
                          "beginner", Some(1))
        EXCEPT !.safety_analysis = Some("report A"), !.analysis_complete = TRUE,
               !.research_complete = TRUE, !.critic_approved = TRUE]

\* A session manager with one session, of user Aisha, the long-term store
\* answering or not. call.now is the clock, in ticks of its resolution.
InitHistory ==
    /\ state = None
    /\ node = "idle"
    /\ trace = <<>>
    /\ ret = None
    /\ manager_calls = <<>>
    /\ call = [fn |-> "history", session_id |-> 1, now |-> 0]
    /\ \E c \in BOOLEAN :
          manager = get_or_create_session(new_session_manager(c), "Aisha", 0).manager

\* session_manager.add_to_history(session_id, analysis_result): the clock
\* is read for the session's entry, and read again by the long-term store
\* for its own entry; a later read returns the same tick or a later one.
AddToHistoryCall ==
    /\ call.fn = "history"
    /\ Len(manager_calls) < MaxHistory
    /\ \E now \in {call.now, call.now + 1} :
          \E redis_now \in {now, now + 1} :
              /\ manager' = add_to_history(manager, call.session_id,
                                           HistoryResult(Len(manager_calls) + 1), now, redis_now)
              /\ manager_calls' = Append(manager_calls,
                    [method |-> "add_to_history", now |-> now, redis_now |-> redis_now,
                     analysis_result |-> HistoryResult(Len(manager_calls) + 1)])
              /\ call' = [call EXCEPT !.now = redis_now]
    /\ ret' = None
    /\ UNCHANGED <<state, node, trace>>

\* session_manager.get_analysis_history(session_id, include_longterm)
GetAnalysisHistoryCall ==
    /\ call.fn = "history"
    /\ ret = None
    /\ \E include_longterm \in BOOLEAN :
          ret' = Some([history |-> get_analysis_history(manager, call.session_id, include_longterm),
                       include_longterm |-> include_longterm])
    /\ UNCHANGED <<state, node, trace, call, manager, manager_calls>>

NextHistory == AddToHistoryCall \/ GetAnalysisHistoryCall

SpecHistory == InitHistory /\ [][NextHistory]_vars

\* Workflow runs and direct calls of the agents side by side: a behaviour
\* is either a run of the graph or one call of an agent's run method.
InitRunsAndCalls == Init \/ InitAgents

NextRunsAndCalls == Next \/ NextAgents

SpecRunsAndCalls == InitRunsAndCalls /\ [][NextRunsAndCalls]_vars

\* ---------------------------------------------------------------- claims

Terminal == node = "END"
Stages(name) == {i \in 1..Len(trace) : trace[i].stage = name}

\* C1: every run terminates: whatever the sources, the report model and the
\* critic model answer and whatever max_retries is, the supervisor -> agent
\* -> supervisor loop reaches the decision next_agent = END with
\* workflow_complete = true (checked under FairSpec: a due node runs).
RunTerminates == <>(Terminal /\ state.next_agent = "END" /\ state.workflow_complete)

\* A run that ended after a failed research attempt and a rejected report.
RunTerminatesWitness ==
    /\ Terminal /\ state.workflow_complete
    /\ state.research_attempts >= 2
    /\ state.total_critic_rejections >= 1

\* C2, as claimed: the agents run at most 2 * max_retries + 2 times in a run.
StageBoundPlusTwo == Len(trace) <= 2 * state.max_retries + 2

\* C2, amended: the agents run at most 2 * max_retries + max(max_retries - 1, 0)
\* times in a run: max_retries times research, max_retries times analysis
\* and max_retries - 1 times the critic.
StageBoundByCeilings ==
    /\ Len(trace) <= 2 * state.max_retries + Max(state.max_retries - 1, 0)
    /\ Cardinality(Stages("research")) <= state.max_retries
    /\ Cardinality(Stages("analysis")) <= state.max_retries
    /\ Cardinality(Stages("critic")) <= Max(state.max_retries - 1, 0)

\* A finished run that used every invocation the ceilings allow.
StageBoundWitness ==
    /\ Terminal
    /\ state.max_retries >= 3
    /\ Len(trace) = 3 * state.max_retries - 1

\* The decision table of the router: rule i applies to state s.
RuleApplies(s, i) ==
    CASE i = 1 -> s.research_attempts >= s.max_retries /\ ~s.research_complete
      [] i = 2 -> s.analysis_attempts >= s.max_retries /\ ~s.critic_approved
      [] i = 3 -> s.critic_approved
      [] i = 4 -> ~s.research_complete
      [] i = 5 -> s.research_complete /\ ~s.analysis_complete
      [] i = 6 -> s.analysis_complete /\ ~s.critic_approved
      [] i = 7 -> TRUE
FirstRule(s) == CHOOSE i \in 1..7 : RuleApplies(s, i) /\ \A j \in 1..(i - 1) : ~RuleApplies(s, j)
\* Feedback is present when it is a non-empty text.
FeedbackPresent(s) == s.critic_feedback # None /\ Len(s.critic_feedback[1]) > 0
RuleResult(s, i) ==
    CASE i \in {1, 2, 3, 7} -> "END"
      [] i = 4 -> "research"
      [] i = 5 -> "analysis"
      [] i = 6 -> IF FeedbackPresent(s) THEN "analysis" ELSE "critic"

Routed == call.fn = "route" /\ ret # None

\* C3: for every workflow state the router returns the result of the first
\* rule of the table that applies, and workflow_complete is true exactly
\* when that result is END.
RouteFollowsTable ==
    Routed =>
        /\ ret[1].next_agent = RuleResult(call.state, FirstRule(call.state))
        /\ ret[1].workflow_complete = (ret[1].next_agent = "END")

\* A rejected report with feedback, within the ceilings, routed back to analysis.
RouteFollowsTableWitness ==
    /\ Routed
    /\ FirstRule(call.state) = 6
    /\ FeedbackPresent(call.state)
    /\ ret[1].next_agent = "analysis"
    /\ ~ret[1].workflow_complete

\* The states that agree with s on the routing fields and differ elsewhere.
SameRoutingFields(s) ==
    { [s EXCEPT !.total_critic_rejections = rej, !.safety_analysis = sa,
                !.next_agent = na, !.workflow_complete = wc, !.messages = ms,
                !.ingredient_names = names]
      : rej \in 0..1, sa \in {None, Some(""), Some("report B")},
        na \in {"research", "END"}, wc \in BOOLEAN,
        ms \in {<<>>, << <<MsgUnexpected>> >>}, names \in {<<>>, <<T_Water>>} }

\* C4: the router is a function of the routing fields alone: any state that
\* agrees with the routed one on research_complete, analysis_complete,
\* critic_approved, critic_feedback, the two attempt counters and
\* max_retries but differs in other fields gets the same next_agent
\* and workflow_complete, and the update the router returns touches no key
\* but next_agent, workflow_complete and messages.
RouterIsPure ==
    Routed =>
        /\ DOMAIN ret[1] \subseteq {"next_agent", "workflow_complete", "messages"}
        /\ \A s2 \in SameRoutingFields(call.state) :
              /\ route(s2).next_agent = ret[1].next_agent
              /\ route(s2).workflow_complete = ret[1].workflow_complete
        /\ \A k \in DOMAIN call.state \ {"next_agent", "workflow_complete", "messages"} :
              Merge(call.state, ret[1])[k] = call.state[k]

\* A routed state with a report and a counted rejection, sent to the critic.
RouterIsPureWitness ==
    /\ Routed
    /\ call.state.total_critic_rejections = 1
    /\ call.state.safety_analysis # None
    /\ ret[1].next_agent = "critic"

AllResearchIncomplete == \A i \in Stages("research") : trace[i].outcome # "complete"

\* C5: as long as every research invocation has ended with
\* research_complete = false, only research has run, at most max_retries
\* times, and no report exists; the run then ends after exactly max_retries
\* research invocations with workflow_complete = true and
\* research_complete = false.
ResearchExhaustion ==
    AllResearchIncomplete =>
        /\ Stages("research") = 1..Len(trace)
        /\ Len(trace) <= state.max_retries
        /\ ~state.research_complete
        /\ state.safety_analysis = None
        /\ Terminal =>
              /\ Len(trace) = state.max_retries
              /\ state.research_attempts = state.max_retries
              /\ state.workflow_complete
              /\ state.next_agent = "END"

\* A run ended by two research invocations whose tool calls all failed.
ResearchExhaustionWitness ==
    /\ Terminal
    /\ AllResearchIncomplete
    /\ state.max_retries = 2
    /\ Len(trace) = 2
    /\ \A i \in 1..2 : trace[i].tool_calls = 2
    /\ state.ingredient_data[1].source = "tavily_error"

\* C6: a research invocation on a state with no ingredient names returns
\* research_complete = false and research_attempts + 1, makes no tool call
\* and leaves ingredient_data, research_confidence and both hit counters as
\* they were.
EmptyListResearch ==
    [][(node = "research" /\ state.ingredient_names = <<>>) =>
          /\ ~state'.research_complete
          /\ state'.research_attempts = state.research_attempts + 1
          /\ trace'[Len(trace')].tool_calls = 0
          /\ state'.ingredient_data = state.ingredient_data
          /\ state'.research_confidence = state.research_confidence
          /\ state'.qdrant_hits = state.qdrant_hits
          /\ state'.tavily_hits = state.tavily_hits]_vars

\* The second research invocation on an empty list has returned.
EmptyListResearchWitness ==
    /\ state.ingredient_names = <<>>
    /\ Len(trace) = 2
    /\ trace[2].stage = "research"
    /\ state.research_attempts = 2
    /\ ~state.research_complete

Scored == call.fn = "safety_scorer" /\ ret # None
\* The scored ingredient matches an allergen of the user's list.
ScoredMatchesAllergen ==
    allergen_matcher(call.ingredient_data.name, call.user_allergies).is_match

\* C7: for every record, skin type and allergen list the scorer returns a
\* personalized score between 1 and 10, and when the ingredient matches an
\* allergen of the list the score is 10 and the recommendation AVOID,
\* whatever the base score and the skin type.
ScoreInRange ==
    Scored =>
        /\ ret[1].personalized_score \in 1..10
        /\ ScoredMatchesAllergen =>
              /\ ret[1].personalized_score = 10
              /\ ret[1].recommendation = "AVOID"

\* A matching allergen on sensitive skin with an irritation concern and the
\* lowest base score: both adjustments apply and the score is 10.
ScoreInRangeWitness ==
    /\ Scored
    /\ ScoredMatchesAllergen
    /\ call.ingredient_data.safety_score = Some(1)
    /\ call.user_skin_type = "sensitive"
    /\ Len(ret[1].adjustments) = 2
    /\ ret[1].personalized_score = 10

\* The concern tags mention the word (in any letter case).
Mentions(concerns, word) == \E i \in 1..Len(concerns) : Contains(Lower(concerns[i]), word)
\* The score the scoring rules give an ingredient that matches no allergen.
UnmatchedScore(ingredient_data, user_skin_type) ==
    LET base == IF ingredient_data.safety_score = None THEN 5
                ELSE ingredient_data.safety_score[1]
        sensitive == IF /\ user_skin_type = "sensitive"
                        /\ \E k \in 1..Len(SensitiveKeywords) :
                              Mentions(ingredient_data.concerns, SensitiveKeywords[k])
                     THEN Min(10, base + 2) ELSE base
    IN  IF user_skin_type = "oily" /\ Mentions(ingredient_data.concerns, T_comedogenic)
        THEN Min(10, sensitive + 1) ELSE sensitive

\* C8: for an ingredient that matches no allergen of the list the
\* personalized score is the base score (5 if absent), plus 2 (at most 10)
\* on sensitive skin with an irritation, allergic or sensitizing concern,
\* plus 1 (at most 10) on oily skin with a comedogenic concern.
ScoreWithoutAllergen ==
    (Scored /\ ~ScoredMatchesAllergen) =>
        ret[1].personalized_score = UnmatchedScore(call.ingredient_data, call.user_skin_type)

Matched == call.fn = "allergen_matcher" /\ ret # None
\* Some allergen of the list equals the name, in any letter case.
SomeAllergenEquals(name, allergies) ==
    \E i \in 1..Len(allergies) : Lower(allergies[i]) = Lower(name)
\* Some allergen of the list contains the name or is contained in it.
SomeAllergenContains(name, allergies) ==
    \E i \in 1..Len(allergies) :
        \/ Contains(Lower(allergies[i]), Lower(name))
        \/ Contains(Lower(name), Lower(allergies[i]))

\* C9: the match kind is decided over the whole allergen list: exact if any
\* allergen equals the ingredient name, else partial if any allergen contains
\* it or is contained in it, else synonym; so "Parfum" against
\* ["Fragrance", "Parfum"] is an exact match.
MatchKindByTier ==
    Matched =>
        /\ SomeAllergenEquals(call.ingredient_name, call.user_allergies) =>
              ret[1].is_match /\ ret[1].match_type = Some("exact")
        /\ (/\ ~SomeAllergenEquals(call.ingredient_name, call.user_allergies)
            /\ SomeAllergenContains(call.ingredient_name, call.user_allergies)) =>
              ret[1].is_match /\ ret[1].match_type = Some("partial")
        /\ (/\ ~SomeAllergenContains(call.ingredient_name, call.user_allergies)
            /\ ret[1].is_match) =>
              ret[1].match_type = Some("synonym")

\* The name in its other letter cases.
CaseVariants(t) == {t, Lower(t), Upper(t)}
\* The allergen list with one allergen, or all of them, in another letter case.
ListCaseVariants(xs) ==
    {xs, [i \in 1..Len(xs) |-> Lower(xs[i])], [i \in 1..Len(xs) |-> Upper(xs[i])]}
    \cup UNION { {[xs EXCEPT ![i] = Lower(xs[i])], [xs EXCEPT ![i] = Upper(xs[i])]} : i \in 1..Len(xs) }

\* C10: the letter case of the ingredient name and of the allergens changes
\* neither is_match nor match_type; an allergen that contains the name and an
\* allergen contained in the name both match; "Parfum" against ["fragrance"]
\* is a synonym match; an empty allergen list never matches.
MatchIgnoresCase ==
    Matched =>
        /\ \A n \in CaseVariants(call.ingredient_name), a \in ListCaseVariants(call.user_allergies) :
              LET m == allergen_matcher(n, a)
              IN  m.is_match = ret[1].is_match /\ m.match_type = ret[1].match_type
        /\ SomeAllergenContains(call.ingredient_name, call.user_allergies) => ret[1].is_match
        /\ (call.ingredient_name = T_Parfum /\ call.user_allergies = <<T_fragrance>>) =>
              ret[1].is_match /\ ret[1].match_type = Some("synonym")
        /\ call.user_allergies = <<>> => ~ret[1].is_match

\* "Parfum" matched against ["fragrance"]: a synonym match that every letter
\* case of the two texts gives as well.
MatchIgnoresCaseWitness ==
    /\ Matched
    /\ call.ingredient_name = T_Parfum
    /\ call.user_allergies = <<T_fragrance>>
    /\ ret[1].is_match
    /\ ret[1].match_type = Some("synonym")
    /\ allergen_matcher(T_PARFUM, <<Upper(T_fragrance)>>).match_type = Some("synonym")

\* The synonym groups of the matching rules, in lower case.
SynonymGroups ==
    { {T_fragrance, T_parfum, T_perfume},
      {T_alcohol, T_alcohol_denat, T_ethanol},
      {T_vitamin_e, T_tocopherol, T_tocopheryl_acetate},
      {T_retinol, T_retinyl_palmitate, T_retinoic_acid, T_tretinoin} }
SameSynonymGroup(x, y) == \E g \in SynonymGroups : Lower(x) \in g /\ Lower(y) \in g

\* C11: for two names X and Y of one synonym group, ingredient X matches the
\* allergen list [Y] exactly when ingredient Y matches the allergen list [X];
\* so "Vitamin E" matches ["Tocopherol"] and "Retinol" matches ["Tretinoin"].
SynonymSymmetric ==
    (/\ Matched
     /\ Len(call.user_allergies) = 1
     /\ SameSynonymGroup(call.ingredient_name, call.user_allergies[1])) =>
        /\ ret[1].is_match =
              allergen_matcher(call.user_allergies[1], <<call.ingredient_name>>).is_match
        /\ ret[1].is_match

\* The stage has just returned and the supervisor has not yet routed on.
JustRan(stage) ==
    /\ node = "supervisor"
    /\ trace # <<>>
    /\ trace[Len(trace)].stage = stage
LastOutcome == trace[Len(trace)].outcome

\* C12: after every critic invocation, either critic_approved is true and
\* critic_feedback is absent or empty, or critic_approved is false,
\* analysis_complete is false and critic_feedback is a non-empty text
\* (missing report, APPROVE verdict and any other verdict text alike).
CriticSetsFlags ==
    JustRan("critic") =>
        IF state.critic_approved
        THEN ~FeedbackPresent(state)
        ELSE ~state.analysis_complete /\ FeedbackPresent(state)

\* A step of the named stage that ended with the named outcome.
StageStep(stage, outcome) ==
    /\ node = stage
    /\ node' = "supervisor"
    /\ trace'[Len(trace')].outcome = outcome

\* C13: when the critic's model call fails, the critic leaves
\* critic_approved true and critic_feedback absent, leaves the report,
\* analysis_complete, the attempt counters and the rejection counter as
\* they were, and the router's next decision ends the run by approval.
CriticFailsOpen ==
    [][StageStep("critic", "error") =>
          /\ state'.critic_approved
          /\ state'.critic_feedback = None
          /\ state'.safety_analysis = state.safety_analysis
          /\ state'.analysis_complete = state.analysis_complete
          /\ state'.analysis_attempts = state.analysis_attempts
          /\ state'.research_attempts = state.research_attempts
          /\ state'.total_critic_rejections = state.total_critic_rejections
          /\ route(state') = [next_agent |-> "END", workflow_complete |-> TRUE]]_vars

\* The critic's model call failed on a report rewritten after a rejection.
CriticFailsOpenWitness ==
    /\ JustRan("critic")
    /\ LastOutcome = "error"
    /\ state.total_critic_rejections >= 1

\* C14: when the report's model call fails, analysis_complete is false,
\* analysis_attempts is one more than before, the stored report and the
\* critic feedback are as they were, and the router sends the state to
\* analysis again exactly when analysis_attempts < max_retries.
AnalysisFailsClosed ==
    [][StageStep("analysis", "error") =>
          /\ ~state'.analysis_complete
          /\ state'.analysis_attempts = state.analysis_attempts + 1
          /\ state'.safety_analysis = state.safety_analysis
          /\ state'.critic_feedback = state.critic_feedback
          /\ (route(state').next_agent = "analysis"
                <=> state'.analysis_attempts < state'.max_retries)]_vars

\* The report's model call failed while a rejected report and its feedback
\* were stored, with an attempt left.
AnalysisFailsClosedWitness ==
    /\ JustRan("analysis")
    /\ LastOutcome = "error"
    /\ state.safety_analysis # None
    /\ FeedbackPresent(state)
    /\ state.analysis_attempts < state.max_retries

\* C15: every final state has workflow_complete true and next_agent END;
\* critic_approved is true exactly when the run ended by the approval rule;
\* a run that ended otherwise ended by a ceiling (research not complete with
\* research_attempts >= max_retries, or analysis_attempts >= max_retries);
\* and an approved final state has analysis_attempts < max_retries.
FinalStateEnding ==
    Terminal =>
        /\ state.workflow_complete
        /\ state.next_agent = "END"
        /\ (state.critic_approved <=> FirstRule(state) = 3)
        /\ (~state.critic_approved =>
               \/ ~state.research_complete /\ state.research_attempts >= state.max_retries
               \/ state.analysis_attempts >= state.max_retries)
        /\ (state.critic_approved => state.analysis_attempts < state.max_retries)

\* A run approved on its last report attempt, after a rejection.
FinalStateEndingWitness ==
    /\ Terminal
    /\ state.critic_approved
    /\ state.total_critic_rejections >= 1
    /\ state.analysis_attempts = state.max_retries - 1

\* The last trace entry of the stage with the outcome.
Outcomes(stage, outcome) ==
    {i \in 1..Len(trace) : trace[i].stage = stage /\ trace[i].outcome = outcome}
LastOf(S) == CHOOSE i \in S : \A j \in S : j <= i

\* C16: when a run has ended with critic_approved false after at least one
\* rejection by the critic, critic_feedback of the final state is the text
\* of the last rejection.
FinalFeedbackIsLastRejection ==
    (Terminal /\ ~state.critic_approved /\ Outcomes("critic", "rejected") # {}) =>
        state.critic_feedback = trace[LastOf(Outcomes("critic", "rejected"))].text

\* C17: when a run has ended at the report ceiling, safety_analysis is the
\* text of the last report invocation that generated one, and is absent
\* when none did; when it has ended at the research ceiling,
\* safety_analysis is absent.
ExhaustedReportIsLastGenerated ==
    /\ (Terminal /\ FirstRule(state) = 2) =>
          state.safety_analysis =
              IF Outcomes("analysis", "generated") = {} THEN None
              ELSE trace[LastOf(Outcomes("analysis", "generated"))].text
    /\ (Terminal /\ FirstRule(state) = 1) => state.safety_analysis = None

\* A run ended at the report ceiling by a failed attempt that followed a
\* generated report.
ExhaustedReportWitness ==
    /\ Terminal
    /\ FirstRule(state) = 2
    /\ LastOutcome = "error"
    /\ Outcomes("analysis", "generated") # {}

FirstOf(S) == CHOOSE i \in S : \A j \in S : i <= j

\* C18: in a run with the initial max_retries whose first research
\* invocation is complete, whose first report invocation generates a text
\* and whose first critic invocation approves, the stages run are exactly
\* research, analysis, critic; the final state has research_complete,
\* critic_approved and workflow_complete true, research_attempts = 1,
\* analysis_attempts = 1 and no rejection; and with no allergies every
\* ingredient record has is_allergen false.
HappyPathPremise ==
    /\ state.max_retries = InitialMaxRetries
    /\ Stages("research") # {} /\ trace[FirstOf(Stages("research"))].outcome = "complete"
    /\ Stages("analysis") # {} /\ trace[FirstOf(Stages("analysis"))].outcome = "generated"
    /\ Stages("critic") # {} /\ trace[FirstOf(Stages("critic"))].outcome = "approved"
HappyPath ==
    HappyPathPremise =>
        /\ [i \in 1..Len(trace) |-> trace[i].stage] = <<"research", "analysis", "critic">>
        /\ Terminal =>
              /\ state.research_complete
              /\ state.critic_approved
              /\ state.workflow_complete
              /\ state.research_attempts = 1
              /\ state.analysis_attempts = 1
              /\ state.total_critic_rejections = 0
              /\ state.allergies = <<>> =>
                    \A i \in 1..Len(state.ingredient_data) : ~state.ingredient_data[i].is_allergen

\* The happy path run to its end for a user without allergies.
HappyPathWitness ==
    /\ HappyPathPremise
    /\ Terminal
    /\ state.allergies = <<>>
    /\ state.ingredient_data # <<>>

Researched == call.fn = "research" /\ ret # None
\* What the two sources answered for the i-th ingredient of the call.
PrimaryOf(i) == ingredient_lookup(call.state.ingredient_names[i], call.outs[i].primary)
WebOf(i) == tavily_search(call.state.ingredient_names[i], call.outs[i].web)
\* The ingredients whose record came from the web search.
WebSourced == {i \in 1..Len(call.outs) : ret[1].update.ingredient_data[i].source = WebOf(i).source}

\* C19: the research agent calls the web search for an ingredient exactly
\* when the lookup's confidence is below 0.7; the ingredient's record is the
\* web result, and counts in tavily_hits, exactly when the web search was
\* called and its confidence is strictly greater than the lookup's;
\* otherwise the record is the lookup's and counts in qdrant_hits.
FallbackPolicy ==
    Researched =>
        /\ \A i \in 1..Len(call.outs) :
              /\ i \in ret[1].web_searched <=> PrimaryOf(i).confidence < 70
              /\ i \in WebSourced <=>
                    (i \in ret[1].web_searched /\ WebOf(i).confidence > PrimaryOf(i).confidence)
              /\ ret[1].update.ingredient_data[i].confidence =
                    IF i \in WebSourced THEN WebOf(i).confidence ELSE PrimaryOf(i).confidence
              /\ i \notin WebSourced =>
                    ret[1].update.ingredient_data[i].source = PrimaryOf(i).source
        /\ ret[1].update.tavily_hits = Cardinality(WebSourced)
        /\ ret[1].update.qdrant_hits = Len(call.outs) - Cardinality(WebSourced)

\* A call in which one ingredient was not searched for, one was searched for
\* with a web result of equal confidence, and one took the web result.
FallbackPolicyWitness ==
    /\ Researched
    /\ \E i \in 1..Len(call.outs) : i \notin ret[1].web_searched
    /\ \E i \in ret[1].web_searched :
          WebOf(i).confidence = PrimaryOf(i).confidence /\ i \notin WebSourced
    /\ WebSourced # {}

\* The sum of the confidences of the first i records, in hundredths.
RECURSIVE SumHundredths(_, _)
SumHundredths(data, i) == IF i = 0 THEN 0 ELSE SumHundredths(data, i - 1) + data[i].confidence

\* C20: after a research invocation on a non-empty ingredient list,
\* research_complete is true exactly when the arithmetic mean of the
\* confidences of the records is at least 0.5, that is when their sum is at
\* least half their number.
CompleteIffMeanAtLeastHalf ==
    Researched =>
        LET data == ret[1].update.ingredient_data
        IN  ret[1].update.research_complete
                <=> SumHundredths(data, Len(data)) >= 50 * Len(data)

\* The critic has rejected a report and no report was generated since.
RejectionPending ==
    /\ Outcomes("critic", "rejected") # {}
    /\ \A i \in Outcomes("analysis", "generated") : i < LastOf(Outcomes("critic", "rejected"))
LastRejectionText == trace[LastOf(Outcomes("critic", "rejected"))].text

\* C21: whenever the report stage runs with a rejection pending, the text
\* of that rejection is still in critic_feedback and is the feedback the
\* generation request carries (a rejection with empty text adds nothing to
\* the request); a report invocation that generates a text leaves
\* critic_feedback absent, and one that fails leaves it as it was.
ReportSeesFeedback ==
    [][(node = "analysis" /\ node' = "supervisor") =>
          /\ RejectionPending =>
                /\ state.critic_feedback = LastRejectionText
                /\ trace'[Len(trace')].request =
                      IF LastRejectionText[1] # <<>> THEN LastRejectionText ELSE None
          /\ trace'[Len(trace')].outcome = "generated" => state'.critic_feedback = None
          /\ trace'[Len(trace')].outcome \in {"error", "no_data"} =>
                state'.critic_feedback = state.critic_feedback]_vars

\* The report stage ran with the rejection's feedback in its request after
\* a failed attempt that followed the rejection.
ReportSeesFeedbackWitness ==
    /\ JustRan("analysis")
    /\ Len(trace) >= 3
    /\ trace[Len(trace)].request # None
    /\ trace[Len(trace) - 1].stage = "analysis"
    /\ trace[Len(trace) - 1].outcome = "error"
    /\ trace[Len(trace) - 2].outcome = "rejected"

\* The fields of the state that carry the request.
InputFields ==
    {"ingredient_names", "user_name", "skin_type", "allergies", "expertise_level",
     "session_id", "max_retries"}

\* C22: no step of the supervisor or of an agent changes an input field of
\* the state (ingredient_names, user_name, skin_type, allergies,
\* expertise_level, session_id, max_retries): each keeps the value the
\* initial state gave it.
InputFieldsKept ==
    [][\A k \in InputFields : k \in DOMAIN state' /\ state'[k] = state[k]]_vars

\* A finished run of a request with ingredients and allergies in which all
\* three agents and the supervisor ran.
InputFieldsKeptWitness ==
    /\ Terminal
    /\ Stages("critic") # {}
    /\ state.ingredient_names # <<>>
    /\ state.allergies # <<>>
    /\ state.total_critic_rejections >= 1

\* The fields of the state that belong to each agent.
StageFields(stage) ==
    CASE stage = "research" ->
            {"research_complete", "ingredient_data", "research_confidence",
             "research_attempts", "qdrant_hits", "tavily_hits"}
      [] stage = "analysis" -> {"analysis_complete", "safety_analysis", "analysis_attempts"}
      [] stage = "critic" -> {"critic_approved", "critic_feedback", "total_critic_rejections"}
AgentStep == node \in {"research", "analysis", "critic"} /\ node' = "supervisor"
\* The fields of another owner that the step changed.
ForeignChanges ==
    {k \in DOMAIN state \ (StageFields(node) \cup {"messages"}) :
        k \notin DOMAIN state' \/ state'[k] # state[k]}

\* C23, as claimed: an agent's step changes only the agent's own fields
\* and the message log; it changes or deletes no field of another owner.
StageWritesOwnFields == [][AgentStep => ForeignChanges = {}]_vars

\* C23, amended: an agent's step changes only the agent's own fields and
\* the message log, but for two hand-overs: the critic's rejection sets
\* analysis_complete to false, and a generated report sets critic_feedback
\* to absent.
StageWritesOwnFieldsOrHandover ==
    [][AgentStep =>
          \/ ForeignChanges = {}
          \/ /\ ForeignChanges = {"analysis_complete"}
             /\ node = "critic"
             /\ trace'[Len(trace')].outcome = "rejected"
             /\ ~state'.analysis_complete
          \/ /\ ForeignChanges = {"critic_feedback"}
             /\ node = "analysis"
             /\ trace'[Len(trace')].outcome = "generated"
             /\ state'.critic_feedback = None]_vars

\* A report generated right after a rejection with a text: both hand-overs
\* have happened.
StageWritesWitness ==
    /\ JustRan("analysis")
    /\ LastOutcome = "generated"
    /\ Len(trace) >= 2
    /\ trace[Len(trace) - 1].outcome = "rejected"
    /\ trace[Len(trace) - 1].text # Some(<<>>)
    /\ state.critic_feedback = None

\* s2 is s with exactly the keys of u overwritten, the message log aside.
Overwritten(s, u, s2) ==
    /\ DOMAIN s2 = DOMAIN s \cup DOMAIN u
    /\ \A k \in DOMAIN s2 \ {"messages"} : s2[k] = IF k \in DOMAIN u THEN u[k] ELSE s[k]
\* The update the step from state to state' returned is one the node's
\* code returns, and state' is state overwritten by it.
StepOverwrites ==
    CASE node = "supervisor" -> Overwritten(state, route(state), state')
      [] node = "research" ->
            \E outs \in [1..Len(state.ingredient_names) -> RunSourceOutcomes] :
                Overwritten(state, research_run(state, outs), state')
      [] node = "analysis" ->
            \E o \in RunReportOutcomes : Overwritten(state, analysis_run(state, o), state')
      [] node = "critic" ->
            \E o \in RunVerdictOutcomes : Overwritten(state, critic_run(state, o), state')

\* C24: on every step the message log before is a prefix of the log after;
\* an agent's step appends exactly one message; the supervisor's step
\* appends one message when it ends the run at a ceiling or by the fallback
\* rule and none otherwise; and every other field is the returned value
\* where the step returned the key and the old value where it did not.
LogAppendOnly ==
    [][node' # node =>
          /\ Len(state'.messages) - Len(state.messages) =
                IF node # "supervisor" \/ FirstRule(state) \in {1, 2, 7} THEN 1 ELSE 0
          /\ SubSeq(state'.messages, 1, Len(state.messages)) = state.messages
          /\ StepOverwrites]_vars

\* A run ended at the report ceiling: the log holds one message per agent
\* invocation and the supervisor's last one.
LogAppendOnlyWitness ==
    /\ Terminal
    /\ FirstRule(state) = 2
    /\ Len(trace) >= 3
    /\ Len(state.messages) = Len(trace) + 1
    /\ state.messages[Len(state.messages)] = MsgAnalysisExhausted

IsPrefix(a, b) == Len(a) <= Len(b) /\ SubSeq(b, 1, Len(a)) = a
GraphNodes == {"supervisor", "research", "analysis", "critic", "END"}

\* C25: run_analysis_with_memory calls the session manager only at the
\* boundaries of the run: get_or_create_session and
\* get_conversation_history before the workflow state exists, and
\* add_to_history once, after the workflow has ended and with its final
\* state; no call is made while the graph runs.
MemoryAtRunBoundaries ==
    call.fn = "run_analysis_with_memory" =>
        /\ IsPrefix([i \in 1..Len(manager_calls) |-> manager_calls[i].method],
                    <<"get_or_create_session", "get_conversation_history", "add_to_history">>)
        /\ \A i \in 1..Len(manager_calls) :
              IF manager_calls[i].method = "add_to_history"
              THEN /\ manager_calls[i].analysis_result = Some(state)
                   /\ manager_calls[i].stages_run = Len(trace)
                   /\ state # None /\ state.workflow_complete /\ state.next_agent = "END"
              ELSE ~manager_calls[i].started /\ manager_calls[i].stages_run = 0
        /\ node \in GraphNodes => Len(manager_calls) = 2
        /\ node = "returned" => Len(manager_calls) = 3 /\ ret = Some(state)

\* A run with a rejection has returned and its final state is in the
\* session's history.
MemoryAtRunBoundariesWitness ==
    /\ call.fn = "run_analysis_with_memory"
    /\ node = "returned"
    /\ state.total_critic_rejections >= 1
    /\ Len(manager.sessions[call.session_id[1]].analysis_history) = 1
    /\ manager.sessions[call.session_id[1]].analysis_history[1].safety_analysis
          = state.safety_analysis

\* C26: for every value of research_complete, analysis_complete,
\* critic_approved, critic_feedback, the attempt counters and max_retries,
\* one of the first six rules of the router applies: the router never
\* returns by its fallback rule.
FallbackUnreachable ==
    Routed =>
        /\ FirstRule(call.state) # 7
        /\ ~("messages" \in DOMAIN ret[1] /\ ret[1].messages = <<MsgUnexpected>>)

\* The router was called on a state only its sixth rule applies to.
FallbackUnreachableWitness ==
    /\ Routed
    /\ FirstRule(call.state) = 6
    /\ FeedbackPresent(call.state)
    /\ ret[1].next_agent = "analysis"

\* The update a direct call returned, and the state it gives when merged.
Returned == call.fn \in {"analysis", "critic", "research", "route"} /\ ret # None
ReturnedUpdate == IF call.fn = "research" THEN ret[1].update ELSE ret[1]
MergedState == Merge(call.state, ReturnedUpdate)

\* C27: every invocation of the research agent adds exactly one to
\* research_attempts, whatever the number of ingredients and the sources'
\* answers; every invocation of the report agent adds exactly one to
\* analysis_attempts, on no data, on a generated report and on a model
\* error; and nothing else changes a counter: not the other agent, not the
\* critic, not the router.
CountersAdvanceByOne ==
    Returned =>
        /\ MergedState.research_attempts =
              call.state.research_attempts + (IF call.fn = "research" THEN 1 ELSE 0)
        /\ MergedState.analysis_attempts =
              call.state.analysis_attempts + (IF call.fn = "analysis" THEN 1 ELSE 0)

\* The report agent was called without ingredient records after an
\* earlier attempt.
CountersAdvanceByOneWitness ==
    /\ Returned
    /\ call.fn = "analysis"
    /\ call.state.ingredient_data = <<>>
    /\ call.state.analysis_attempts >= 1
    /\ ~ret[1].analysis_complete

\* The source answered with no data: confidence 0 from the index (error or
\* not found), an exception from the web search.
PrimaryFailed(o) == o.primary.kind \in {"error", "none"}
WebFailed(o) == o.web.kind = "error"
\* The record the research agent returns for the i-th ingredient alone.
RecordAlone(i) ==
    research_run([call.state EXCEPT !.ingredient_names = <<call.state.ingredient_names[i]>>],
                 <<call.outs[i]>>).ingredient_data[1]

\* C28: after a research invocation on a non-empty list, ingredient_data
\* has one record per ingredient name, in the order of the names; the i-th
\* record is the one the i-th name and its sources' answers give on their
\* own, whatever the other ingredients' sources answered; and an ingredient
\* whose lookup or web search failed still has its record, under its name.
ResearchTotalAndOrdered ==
    (Returned /\ call.fn = "research" /\ call.state.ingredient_names # <<>>) =>
        LET names == call.state.ingredient_names
            data == ret[1].update.ingredient_data
        IN  /\ Len(data) = Len(names)
            /\ \A i \in 1..Len(names) :
                  /\ data[i] = RecordAlone(i)
                  /\ PrimaryFailed(call.outs[i]) => data[i].name = names[i]

\* Two ingredients: both sources failed for the first, the index found the
\* second.
ResearchTotalAndOrderedWitness ==
    /\ Returned
    /\ call.fn = "research"
    /\ Len(call.state.ingredient_names) = 2
    /\ PrimaryFailed(call.outs[1]) /\ WebFailed(call.outs[1])
    /\ ~PrimaryFailed(call.outs[2])
    /\ ret[1].update.ingredient_data[1].source = "tavily_error"
    /\ ret[1].update.ingredient_data[2].source = "qdrant"

\* C29: the recommendation the scorer returns is determined by the score it
\* returns: AVOID from 8 up, USE WITH CAUTION from 5 to below 8, SAFE below
\* 5, for every record, skin type and allergen list.
RecommendationFollowsScore ==
    Scored =>
        LET score == ret[1].personalized_score
        IN  /\ score >= 8 => ret[1].recommendation = "AVOID"
            /\ (score >= 5 /\ score < 8) => ret[1].recommendation = "USE WITH CAUTION"
            /\ score < 5 => ret[1].recommendation = "SAFE"

\* A record with base score 2 and no concern, normal skin, an empty
\* allergen list: the scorer has returned the score 10 (the allergen test
\* of line 144 passes for every list) and the recommendation AVOID.
RecommendationFollowsScoreWitness ==
    /\ Scored
    /\ call.ingredient_data.safety_score = Some(2)
    /\ call.ingredient_data.concerns = <<T_none>>
    /\ call.user_skin_type = "normal"
    /\ call.user_allergies = <<>>
    /\ ret[1].base_score = 2
    /\ ret[1].personalized_score = 10
    /\ ret[1].recommendation = "AVOID"

\* Validation invocations of the run so far that returned
\* critic_approved = false: the rejections and the missing-report answers.
NotApprovedCount ==
    Cardinality({i \in 1..Len(trace) :
                    /\ trace[i].stage = "critic"
                    /\ trace[i].outcome \in {"rejected", "no_analysis"}})

\* C30: in every reachable state total_critic_rejections equals the number
\* of validation invocations so far that returned critic_approved = false.
RejectionsCountedExactly ==
    state # None => state.total_critic_rejections = NotApprovedCount

\* A validation step that rejects stores the model's text as the feedback
\* and adds one to the counter; one that approves, fail-open included,
\* leaves the counter as it was.
RejectionStepsCounted ==
    [][(node = "critic" /\ node' = "supervisor") =>
          /\ LastOutcome' = "rejected" =>
                /\ state'.critic_feedback = trace'[Len(trace')].text
                /\ state'.critic_feedback # None
                /\ state'.total_critic_rejections = state.total_critic_rejections + 1
          /\ LastOutcome' \in {"approved", "error"} =>
                state'.total_critic_rejections = state.total_critic_rejections]_vars

\* C31: the report agent called without ingredient records returns
\* analysis_complete = false and analysis_attempts + 1, makes no model
\* call, and leaves the stored report and the critic's feedback as they
\* were; in a workflow run it is never called so: the report node runs
\* only with research_complete true, and research_complete true comes with
\* at least one ingredient record.
ReportFailsFastOnNoData ==
    /\ (Returned /\ call.fn = "analysis" /\ call.state.ingredient_data = <<>>) =>
          /\ ~ret[1].analysis_complete
          /\ ret[1].analysis_attempts = call.state.analysis_attempts + 1
          /\ analysis_generate_calls(call.state) = 0
          /\ MergedState.safety_analysis = call.state.safety_analysis
          /\ MergedState.critic_feedback = call.state.critic_feedback
    /\ state # None =>
          /\ state.research_complete => state.ingredient_data # <<>>
          /\ node = "analysis" => state.research_complete
          /\ Outcomes("analysis", "no_data") = {}

\* The report agent was called without records on a state holding a
\* report and feedback, the model ready to answer with a text.
ReportFailsFastOnNoDataWitness ==
    /\ Returned
    /\ call.fn = "analysis"
    /\ call.state.ingredient_data = <<>>
    /\ call.state.safety_analysis = Some("report A")
    /\ call.state.critic_feedback = Some(T_VerdictReject)
    /\ call.o.kind = "text"
    /\ ~ret[1].analysis_complete

StageNodes == {"research", "analysis", "critic"}
\* Two validation invocations with no report invocation between them.
CriticTwiceInARow(t) ==
    \E i \in 1..Len(t) - 1 : t[i].stage = "critic" /\ t[i + 1].stage = "critic"

\* C32: stages run one at a time, each followed by a router step; the
\* report stage is never invoked with research_complete false; the critic
\* is never invoked unless analysis_complete is true, critic_approved is
\* false and no feedback is pending; research is never invoked once
\* research_complete is true; and between two critic invocations there is
\* at least one report invocation.
StageOrdering ==
    [][/\ node \in StageNodes =>
             /\ node' = "supervisor"
             /\ Len(trace') = Len(trace) + 1
             /\ trace'[Len(trace')].stage = node
       /\ node = "supervisor" =>
             /\ node' \in StageNodes \cup {"END"}
             /\ trace' = trace
       /\ node' = "analysis" => state'.research_complete
       /\ node' = "critic" =>
             /\ state'.analysis_complete
             /\ ~state'.critic_approved
             /\ ~TruthyText(state'.critic_feedback)
       /\ node' = "research" => ~state'.research_complete
       /\ ~CriticTwiceInARow(trace')]_vars

\* A run in which the critic ran twice, a report invocation between the
\* two, and research once.
StageOrderingWitness ==
    /\ state # None
    /\ Cardinality(Stages("critic")) = 2
    /\ Cardinality(Stages("research")) = 1
    /\ trace[Len(trace)].stage = "critic"
    /\ trace[Len(trace) - 1].stage = "analysis"
    /\ node = "supervisor"

\* The verdict token of a judgment: its leading word, in upper case.
IsLetter(c) == \E i \in 1..Len(UpperLetters) : UpperChar(c) = UpperLetters[i]
VerdictToken(t) ==
    LET k == CHOOSE k \in 0..Len(t) :
                 /\ \A i \in 1..k : IsLetter(t[i])
                 /\ k = Len(t) \/ ~IsLetter(t[k + 1])
    IN  Upper(SubSeq(t, 1, k))
\* The critic was called on a state holding a report and its model answered.
Judged ==
    /\ Returned
    /\ call.fn = "critic"
    /\ TruthyStr(call.state.safety_analysis)
    /\ call.o.kind = "text"

\* C33: the critic approves exactly the answers whose verdict token is
\* APPROVE, whatever the rationale that follows says; an answer whose
\* token is REJECT, or that carries neither token, is a rejection.
VerdictTokenDecides ==
    Judged => (ret[1].critic_approved <=> VerdictToken(call.o.text) = T_APPROVE)

LastMessage == state.messages[Len(state.messages)]

\* C35: the critic is invoked at most max_retries - 1 times in a run (not
\* at all when max_retries is 0): it is never invoked with
\* analysis_attempts at the ceiling, and a run whose last report attempt
\* reached the ceiling ends right after it, unapproved, with the
\* report-exhausted message. So with max_retries = 2 a run in which the
\* critic rejected once ends with critic_approved false, and with
\* max_retries = 1 no run ends approved.
ValidationBelowCeiling ==
    /\ Cardinality(Stages("critic")) <= Max(state.max_retries - 1, 0)
    /\ node = "critic" => state.analysis_attempts < state.max_retries
    /\ (JustRan("analysis") /\ state.analysis_attempts >= state.max_retries) =>
          /\ ~state.critic_approved
          /\ route(state).next_agent = "END"
          /\ route(state).messages = <<MsgAnalysisExhausted>>
    /\ (Terminal /\ trace # <<>> /\ trace[Len(trace)].stage = "analysis") =>
          /\ state.analysis_attempts = state.max_retries
          /\ ~state.critic_approved
          /\ LastMessage = MsgAnalysisExhausted
    /\ (Terminal /\ state.max_retries = 2 /\ Outcomes("critic", "rejected") # {}) =>
          ~state.critic_approved
    /\ (Terminal /\ state.max_retries = 1) => ~state.critic_approved

\* A finished run with max_retries = 2: the first report was rejected, the
\* second was generated and never validated.
ValidationBelowCeilingWitness ==
    /\ Terminal
    /\ state.max_retries = 2
    /\ Cardinality(Outcomes("critic", "rejected")) = 1
    /\ Cardinality(Stages("critic")) = 1
    /\ trace[Len(trace)].stage = "analysis"
    /\ trace[Len(trace)].outcome = "generated"
    /\ ~state.critic_approved

\* C36: in every state of a run analysis_complete implies
\* research_complete; critic_approved implies research_complete,
\* analysis_complete and a present, non-empty report; research_complete
\* once true stays true; a report once present stays present; and after
\* critic_approved becomes true no stage is invoked, so the report of the
\* final state is the one that was approved.
ProgressFlagsConsistent ==
    [][/\ state'.analysis_complete => state'.research_complete
       /\ state'.critic_approved =>
             /\ state'.research_complete
             /\ state'.analysis_complete
             /\ TruthyStr(state'.safety_analysis)
       /\ state.research_complete => state'.research_complete
       /\ state.safety_analysis # None => state'.safety_analysis # None
       /\ state.critic_approved =>
             /\ node' = "END"
             /\ trace' = trace
             /\ state'.critic_approved
             /\ state'.safety_analysis = state.safety_analysis]_vars

\* A finished run approved at the second validation: the first report was
\* rejected, the second approved and returned.
ProgressFlagsConsistentWitness ==
    /\ Terminal
    /\ state.critic_approved
    /\ state.research_complete /\ state.analysis_complete
    /\ Cardinality(Outcomes("critic", "rejected")) = 1
    /\ trace[Len(trace)].stage = "critic"
    /\ trace[Len(trace)].outcome = "approved"
    /\ state.safety_analysis = trace[Len(trace) - 1].text
    /\ TruthyStr(state.safety_analysis)

\* The source tags of the records the web search returns.
TavilySources == {"tavily_unavailable", "tavily_no_results", "tavily_error", "tavily_web_search"}
\* The records of a list that came from the web search.
FromTavily(data) == {i \in 1..Len(data) : data[i].source \in TavilySources}
\* The hit counts of update u account for the n names asked for.
HitsAccountFor(u, n) ==
    /\ Len(u.ingredient_data) = n
    /\ u.qdrant_hits + u.tavily_hits = n
    /\ u.tavily_hits = Cardinality(FromTavily(u.ingredient_data))

\* C37: after every research invocation on a non-empty list qdrant_hits +
\* tavily_hits is the number of ingredient names and the length of
\* ingredient_data, tavily_hits being the number of records that came from
\* the web search; a retry within a run writes the counts of that
\* invocation alone, whatever the counts of the attempt before.
SourceAccounting ==
    [][/\ (node = "research" /\ state.ingredient_names # <<>>) =>
             HitsAccountFor(state', Len(state.ingredient_names))
       /\ (call.fn = "research" /\ ret = None /\ ret' # None
              /\ call.state.ingredient_names # <<>>) =>
             HitsAccountFor(ret'[1].update, Len(call.state.ingredient_names))]_vars

\* A run whose first research attempt took the web search's record and
\* stayed incomplete, and whose second took the index's: the counts are
\* those of the second attempt.
SourceAccountingWitness ==
    /\ JustRan("research")
    /\ Cardinality(Stages("research")) = 2
    /\ trace[Len(trace) - 1].stage = "research"
    /\ trace[Len(trace) - 1].tool_calls = 2
    /\ state.ingredient_data[1].source = "qdrant"
    /\ state.qdrant_hits = 1
    /\ state.tavily_hits = 0

\* The confidences tavily_search returns, in hundredths.
WebConfidences == {10, 20, 30, 40, 60}

\* C38: the confidence of an ingredient's record is the lookup's when that
\* is at least 0.7 and otherwise the larger of the lookup's and the web
\* search's; the web search returns 0.1, 0.2, 0.3, 0.4 or 0.6 only, so a
\* record that came from it has confidence below 0.7; and when the lookup
\* failed for every ingredient research is complete only if the web search
\* returned 0.6 for some and the confidences have a mean of 0.5 or more.
FallbackKeepsConfidence ==
    (Returned /\ call.fn = "research" /\ call.state.ingredient_names # <<>>) =>
        LET data == ret[1].update.ingredient_data
            n == Len(call.state.ingredient_names)
        IN  /\ \A i \in 1..n :
                  /\ data[i].confidence =
                        IF PrimaryOf(i).confidence >= 70 THEN PrimaryOf(i).confidence
                        ELSE Max(PrimaryOf(i).confidence, WebOf(i).confidence)
                  /\ WebOf(i).confidence \in WebConfidences
                  /\ data[i].source \in TavilySources => data[i].confidence < 70
            /\ ((\A i \in 1..n : PrimaryOf(i).confidence = 0)
                   /\ ret[1].update.research_complete) =>
                  /\ \E i \in 1..n : WebOf(i).confidence = 60
                  /\ SumHundredths(data, n) >= 50 * n

\* Two ingredients, the lookup failed for both, the web search found three
\* results for one and a single result for the other: a mean of 0.5, and
\* research is complete.
FallbackKeepsConfidenceWitness ==
    /\ Returned
    /\ call.fn = "research"
    /\ Len(call.state.ingredient_names) = 2
    /\ PrimaryOf(1).confidence = 0 /\ PrimaryOf(2).confidence = 0
    /\ WebOf(1).confidence = 60 /\ WebOf(2).confidence = 40
    /\ ret[1].update.ingredient_data[2].confidence = 40
    /\ ret[1].update.research_complete

\* The entries of history h that record the k-th analysis added.
EntriesOf(h, k) ==
    {i \in 1..Len(h) :
        h[i].ingredient_names = manager_calls[k].analysis_result.ingredient_names}

\* C39: with the long-term store connected, after any sequence of
\* add_to_history calls get_analysis_history returns each added analysis
\* exactly once, the most recent first.
HistoryMergedOnce ==
    (call.fn = "history" /\ ret # None /\ ret[1].include_longterm
        /\ manager.redis_connected) =>
        LET h == ret[1].history
        IN  /\ \A k \in 1..Len(manager_calls) : Cardinality(EntriesOf(h, k)) = 1
            /\ \A k \in 1..Len(manager_calls) - 1 :
                  \A i \in EntriesOf(h, k), j \in EntriesOf(h, k + 1) : j < i

====
